---- MODULE Spec2Model ----
(***************************************************************************)
(* Browser automation control engine of baoyu-post-to-wechat:              *)
(*   - CdpConnection (wechat-browser.ts): command/response correlation,    *)
(*     per-command timers, event handlers, transport close;                *)
(*   - a publish run issuing commands one at a time over that connection;  *)
(*   - waitForImagesUploaded (wechat-browser.ts): the upload verifier;     *)
(*   - postArticle (wechat-article.ts): image placeholder loop and the     *)
(*     save-draft step with the originality dialog resolver.               *)
(* Each part has its own specification over the shared variable list; the  *)
(* variables of the other parts stay at their idle values.                 *)
(***************************************************************************)
EXTENDS Integers, Sequences, FiniteSets, TLC

VARIABLES
  \* ---- CdpConnection ----
  nextId,         \* private nextId: last command id handed out
  pending,        \* private pending: id -> [method, hasTimer]
  timers,         \* armed setTimeout handles of the runtime (one per command id)
  eventHandlers,  \* private eventHandlers: method -> handlers in insertion order
  wsOpen,         \* the WebSocket is open (no close event yet)
  wire,           \* ids of command frames the transport delivered to the browser
  settled,        \* id -> the calls made to that command's resolve / reject
  invoked,        \* handler calls made while processing the last incoming frame
  lastOp,         \* the last connection operation, with its input
  \* ---- publish run (postToWeChat) ----
  runPc, runStep, runAwait, runError, runClosed, runPass, runCand, runNav,
  \* ---- waitForImagesUploaded ----
  vPc, vNow, vStart, vTimeout, vExpected, vBest, vSample, vFirstOk, vOutcome,
  \* ---- postArticle ----
  aPc, aImg, aDoc, aSel, aFound, aClip, aTask, aOps, aDialog, aSeen, aPoll,
  aSubmits, aSubmitDlg,
  \* ---- sessions obtained by Target.attachToTarget ----
  sess,           \* attach site -> its session: position, enabled domains, use
  \* ---- editor detection of postToWeChat ----
  eTargets,       \* the browser's targets: target id -> kind of target
  eInline,        \* the attached page shows one of the editor selectors
  eInitialIds,    \* initialIds: the snapshot taken before the menu click
  ePc, eNow, eStart, eNav, eInfo, eSession, eSent, eError,
  ePasses, eDiff, eChanged, eStable,
  \* ---- image upload wait of postToWeChat ----
  uPhase,         \* "first" wait, "retry" wait, or the verdict
  uIssue,         \* a failure phrase is visible in the page, and since when
  uDetected,      \* the results of detectImageUploadIssue, in order
  \* ---- postToWeChat from the upload to the finally block ----
  pPc,            \* the statement the run is at
  pAttempt,       \* 1: first upload, 2: the retry
  pSticker,       \* isStickerFlow
  pSubmit,        \* the option submit
  pInputs,        \* the document's input[type=file] nodes, in document order
  pNodeIds,       \* uploadInputNodeIds
  pFiles,         \* node -> number of files the input holds
  pEvents,        \* events dispatched on file inputs since the last assignment
  pLog,           \* the steps the run has performed, in order
  pIssue,         \* uploadIssue (TRUE: a message, FALSE: null)
  pCoverReady,    \* coverReady
  pTopReady,      \* topImageReady
  pUploadOk,      \* uploadOk, once computed
  pState,         \* editorState and lineBreakMissing of the content check
  pCopies,        \* how many times the editor holds the content
  pConfirm,       \* the page has confirmed the save (toast shown)
  pResult,        \* what the run reported at its end
  pError,         \* the error thrown out of the try block, or "none"
  pConn,          \* the CDP connection is open
  pBrowser,       \* the spawned Chrome process
  \* ---- login wait of postToWeChat ----
  lPc, lNow, lStart, lTimeout,
  lLogged,        \* the page's URL contains /cgi-bin/home
  lEver,          \* lLogged has been true at some time
  lObserved,      \* checkLoginStatus has returned true
  lMenu,          \* the creation menu has been clicked
  lError,
  \* ---- visibility decisions of the page helpers ----
  visHelper,      \* the helper applied last
  visEl,          \* the element it decided about
  visRow,         \* the row containing it, for the row helpers
  visActed,       \* it clicked, selected or reported the element visible
  \* ---- postArticle from the content insertion to the save click ----
  cPc,            \* the statement the run is at
  cOpts,          \* the options submit and manualPaste, and the input kind
  cLens,          \* the editor text lengths read so far, in order
  cLog,           \* the steps the run has performed, in order
  cError,         \* the error thrown out of the try block, or "none"
  \* ---- one pass of postArticle's image loop over a long article ----
  sPc,            \* the statement the pass is at
  sTarget,        \* the number of the image the pass is for
  sDoc,           \* the editor's nodes, in document order
  sOwner,         \* per node, the number of the image it stands for (0: prose)
  sSel,           \* the selection
  sFound,         \* found, the result of selectAndReplacePlaceholder
  \* ---- pre-processing of postToWeChat ----
  zPc,            \* the statement the pre-processing is at
  zOptions,       \* options.title and options.content as passed in
  zTitle,         \* title: its characters
  zContent,       \* content: its lines, each with its length
  zError,         \* the error thrown, or "none"
  \* ---- handleOriginalDialogIfPresent of wechat-browser.ts ----
  dPc,            \* the statement the resolver is at
  dPage,          \* the visible dialogs with their buttons, and which of
                  \* them is the originality dialog
  dFields,        \* the expected fields the originality dialog shows
  dFilled,        \* the fields the resolver has filled in
  dClick,         \* the result of clickPrimaryButtonInVisibleDialog
  dNow,           \* Date.now() - start of the close poll
  dResult,        \* what the resolver returned
  dError          \* the error thrown, or "none"

cdpVars == <<nextId, pending, timers, eventHandlers, wsOpen, wire, settled,
             invoked, lastOp>>
runVars == <<runPc, runStep, runAwait, runError, runClosed, runPass, runCand,
             runNav>>
verVars == <<vPc, vNow, vStart, vTimeout, vExpected, vBest, vSample, vFirstOk,
             vOutcome>>
artVars == <<aPc, aImg, aDoc, aSel, aFound, aClip, aTask, aOps, aDialog, aSeen,
             aPoll, aSubmits, aSubmitDlg>>
attVars == <<sess>>
edVars == <<eTargets, eInline, eInitialIds, ePc, eNow, eStart, eNav, eInfo,
            eSession, eSent, eError, ePasses, eDiff, eChanged, eStable>>
upVars == <<uPhase, uIssue, uDetected>>
postVars == <<pPc, pAttempt, pSticker, pSubmit, pInputs, pNodeIds, pFiles, pEvents, pLog,
              pIssue, pCoverReady, pTopReady, pUploadOk, pState, pCopies, pConfirm,
              pResult, pError, pConn, pBrowser>>
loginVars == <<lPc, lNow, lStart, lTimeout, lLogged, lEver, lObserved, lMenu, lError>>
visVars == <<visHelper, visEl, visRow, visActed>>
cntVars == <<cPc, cOpts, cLens, cLog, cError>>
selVars == <<sPc, sTarget, sDoc, sOwner, sSel, sFound>>
zipVars == <<zPc, zOptions, zTitle, zContent, zError>>
dlgVars == <<dPc, dPage, dFields, dFilled, dClick, dNow, dResult, dError>>
moreVars == <<cntVars, selVars, zipVars, dlgVars>>
oldVars == <<cdpVars, runVars, verVars, artVars, attVars, edVars, upVars, postVars,
             loginVars, visVars>>
vars == <<cdpVars, runVars, verVars, artVars, attVars, edVars, upVars, postVars,
          loginVars, visVars, moreVars>>

(***************************************************************************)
(* CdpConnection                                                           *)
(***************************************************************************)
MaxCmds == 2
Ids == 1..MaxCmds

CmdMethods == {"Runtime.evaluate", "Target.getTargets"}
EventMethods == {"Page.loadEventFired", "Target.targetCreated"}
NoMethod == "none"
Params == {"p1", "p2"}
NoParams == "undefined"

\* Handlers a caller may register; hThrow raises when called.
Handlers == {"hLog", "hThrow"}
HandlerThrows(h) == h = "hThrow"

DefaultTimeoutMs == 15000
\* options.timeoutMs of send(): absent, 0 (no timer) or a positive override
TimeoutOpts == {[given |-> FALSE, ms |-> 0], [given |-> TRUE, ms |-> 0],
                [given |-> TRUE, ms |-> 5000]}

\* Incoming frames after JSON.parse.  The protocol's frames are responses
\* {id, result | error} and events {method, params}; anything else that reaches
\* the listener is text JSON.parse rejects.  id 0 stands for a frame without a
\* truthy id; err is "none" (no error member), "message" (error with a
\* non-empty message) or "noMessage" (error object whose message is missing
\* or empty).
ErrKinds == {"none", "message", "noMessage"}
Malformed == [malformed |-> TRUE, id |-> 0, method |-> NoMethod,
              params |-> NoParams, err |-> "none"]
NoFrame == [malformed |-> FALSE, id |-> 0, method |-> NoMethod,
            params |-> NoParams, err |-> "none"]
Responses(maxId) ==
  [malformed : {FALSE}, id : 1..maxId, method : {NoMethod},
   params : {NoParams}, err : ErrKinds]
Events ==
  [malformed : {FALSE}, id : {0}, method : EventMethods,
   params : Params, err : {"none"}]
Frames(maxId) == Responses(maxId) \cup Events \cup {Malformed}

Resolved == [how |-> "resolve", why |-> "result", method |-> NoMethod]
RejectedError == [how |-> "reject", why |-> "error", method |-> NoMethod]
RejectedClosed == [how |-> "reject", why |-> "CDP connection closed.", method |-> NoMethod]
RejectedTimeout(m) == [how |-> "reject", why |-> "CDP timeout", method |-> m]

Without(f, id) == [i \in DOMAIN f \ {id} |-> f[i]]
With(f, id, v) == [i \in DOMAIN f \cup {id} |-> IF i = id THEN v ELSE f[i]]
EmptyMap == [i \in {} |-> NoFrame]

InitCdpVars ==
  /\ nextId = 0
  /\ pending = EmptyMap
  /\ timers = {}
  /\ eventHandlers = [m \in EventMethods |-> <<>>]
  /\ wsOpen = TRUE
  /\ wire = {}
  /\ settled = EmptyMap
  /\ invoked = <<>>
  /\ lastOp = [op |-> "init", id |-> 0, frame |-> NoFrame]

\* on(method, handler): a Set keeps one copy of a handler, in insertion order.
InSeq(s, x) == \E i \in 1..Len(s) : s[i] = x
On(method, h) ==
  /\ eventHandlers' = [eventHandlers EXCEPT ![method] =
                         IF InSeq(@, h) THEN @ ELSE Append(@, h)]
  /\ lastOp' = [op |-> "on", id |-> 0, frame |-> NoFrame]
  /\ UNCHANGED <<nextId, pending, timers, wsOpen, wire, settled, invoked>>

\* send(): const timeoutMs = options?.timeoutMs ?? 15_000
EffectiveTimeoutOr(opt) == IF opt.given /\ opt.ms # 0 THEN opt.ms ELSE DefaultTimeoutMs
EffectiveTimeout(opt) == IF opt.given THEN opt.ms ELSE DefaultTimeoutMs

\* send(): fresh id, timer armed when timeoutMs > 0, entry stored, frame
\* written.  A WebSocket that is no longer open discards the frame silently.
Send(method, opt) ==
  /\ LET id == nextId + 1
         armed == EffectiveTimeout(opt) > 0
     IN /\ nextId' = id
        /\ pending' = With(pending, id, [method |-> method, hasTimer |-> armed])
        /\ timers' = IF armed THEN timers \cup {id} ELSE timers
        /\ wire' = IF wsOpen THEN wire \cup {id} ELSE wire
        /\ settled' = With(settled, id, <<>>)
        /\ lastOp' = [op |-> "send", id |-> id, frame |-> NoFrame, opt |-> opt]
  /\ UNCHANGED <<eventHandlers, wsOpen, invoked>>

\* The timer callback's this.pending.delete(id).
PendingAfterTimerCleared(id) == EmptyMap
PendingAfterTimer(id) == Without(pending, id)

\* The timer callback of send(): this.pending.delete(id); reject(timeout).
TimerFire(id) ==
  /\ id \in timers
  /\ timers' = timers \ {id}
  /\ pending' = PendingAfterTimer(id)
  /\ settled' = [settled EXCEPT ![id] =
                   Append(@, RejectedTimeout(
                     IF id \in DOMAIN pending THEN pending[id].method ELSE NoMethod))]
  /\ lastOp' = [op |-> "timer", id |-> id, frame |-> NoFrame]
  /\ UNCHANGED <<nextId, eventHandlers, wsOpen, wire, invoked>>

\* handlers.forEach((h) => h(msg.params)): the calls made, in order; a handler
\* that throws ends forEach, and the exception leaves the try block.
FirstThrow(hs) ==
  IF \E i \in 1..Len(hs) : HandlerThrows(hs[i])
  THEN CHOOSE i \in 1..Len(hs) :
         /\ HandlerThrows(hs[i])
         /\ \A j \in 1..(i - 1) : ~HandlerThrows(hs[j])
  ELSE 0
CalledHandlers(hs) == IF FirstThrow(hs) = 0 THEN hs ELSE SubSeq(hs, 1, FirstThrow(hs))

\* if (msg.error?.message) pending.reject(...) else pending.resolve(msg.result)
SettleOutcome(f) == IF f.err = "message" THEN RejectedError ELSE Resolved

\* if (pending.timer) clearTimeout(pending.timer)
TimersAfterSettleKept(id) == timers
TimersAfterSettle(id) == IF pending[id].hasTimer THEN timers \ {id} ELSE timers

\* catch {}: the exception of JSON.parse is swallowed and the socket kept.
WsOpenAfterDropClosed == FALSE
WsOpenAfterDrop == wsOpen

\* this.pending.delete(msg.id) of the 'message' listener
PendingAfterSettleKept(id) == pending
PendingAfterSettle(id) == Without(pending, id)

\* The 'message' listener.
OnMessage(f) ==
  /\ wsOpen
  /\ lastOp' = [op |-> "message", id |-> f.id, frame |-> f]
  /\ IF f.malformed
     THEN /\ invoked' = <<>>
          /\ UNCHANGED <<pending, timers, settled>>
     ELSE LET hs == IF f.method # NoMethod THEN eventHandlers[f.method] ELSE <<>>
              calls == CalledHandlers(hs)
              threw == FirstThrow(hs) # 0
          IN /\ invoked' = [i \in 1..Len(calls) |-> <<calls[i], f.params>>]
             /\ IF ~threw /\ f.id # 0 /\ f.id \in DOMAIN pending
                THEN /\ pending' = PendingAfterSettle(f.id)
                     /\ timers' = TimersAfterSettle(f.id)
                     /\ settled' = [settled EXCEPT ![f.id] =
                                      Append(@, SettleOutcome(f))]
                ELSE UNCHANGED <<pending, timers, settled>>
  /\ wsOpen' = IF f.malformed THEN WsOpenAfterDrop ELSE wsOpen
  /\ UNCHANGED <<nextId, eventHandlers, wire>>

\* for (const [id, pending] of this.pending.entries()): the entries visited.
ClosedEntriesTimed == {i \in DOMAIN pending : pending[i].hasTimer}
ClosedEntries == DOMAIN pending

\* The 'close' listener: every entry is deleted, its timer cleared, rejected.
OnClose ==
  /\ wsOpen
  /\ wsOpen' = FALSE
  /\ pending' = [i \in DOMAIN pending \ ClosedEntries |-> pending[i]]
  /\ timers' = timers \ {i \in ClosedEntries : pending[i].hasTimer}
  /\ settled' = [i \in DOMAIN settled |-> IF i \in ClosedEntries
                               THEN Append(settled[i], RejectedClosed)
                               ELSE settled[i]]
  /\ lastOp' = [op |-> "close", id |-> 0, frame |-> NoFrame]
  /\ UNCHANGED <<nextId, eventHandlers, wire, invoked>>

(***************************************************************************)
(* Idle values of the parts a specification does not exercise              *)
(***************************************************************************)
IdleRun ==
  /\ runPc = "idle" /\ runStep = 0 /\ runAwait = 0
  /\ runError = "none" /\ runClosed = "no"
  /\ runPass = 0 /\ runCand = 0 /\ runNav = FALSE
IdleVerifier ==
  /\ vPc = "idle" /\ vNow = 0 /\ vStart = 0 /\ vTimeout = 0 /\ vExpected = 0
  /\ vBest = 0 /\ vSample = <<>> /\ vFirstOk = FALSE /\ vOutcome = "none"
IdleArticle ==
  /\ aPc = "idle" /\ aImg = 0 /\ aDoc = <<>> /\ aSel = <<>> /\ aFound = FALSE
  /\ aClip = 0 /\ aTask = <<>> /\ aOps = <<>> /\ aDialog = "hidden"
  /\ aSeen = FALSE /\ aPoll = 0 /\ aSubmits = 0 /\ aSubmitDlg = FALSE

IdleAttach == sess = <<>>
IdleUpload == uPhase = "idle" /\ uIssue = "none" /\ uDetected = <<>>
IdleLogin ==
  /\ lPc = "idle" /\ lNow = 0 /\ lStart = 0 /\ lTimeout = 0 /\ lLogged = FALSE
  /\ lEver = FALSE /\ lObserved = FALSE /\ lMenu = FALSE /\ lError = "none"
IdleVisible == visHelper = "none" /\ visEl = <<>> /\ visRow = <<>> /\ visActed = FALSE
IdleContent ==
  /\ cPc = "idle" /\ cOpts = <<>> /\ cLens = <<>> /\ cLog = <<>> /\ cError = "none"
IdleSelect ==
  /\ sPc = "idle" /\ sTarget = 0 /\ sDoc = <<>> /\ sOwner = <<>> /\ sSel = <<>>
  /\ sFound = FALSE
IdleCompress ==
  /\ zPc = "idle" /\ zOptions = <<>> /\ zTitle = <<>> /\ zContent = <<>>
  /\ zError = "none"
IdleDialog ==
  /\ dPc = "idle" /\ dPage = <<>> /\ dFields = {} /\ dFilled = {}
  /\ dClick = <<>> /\ dNow = 0 /\ dResult = "none" /\ dError = "none"
IdleMore == IdleContent /\ IdleSelect /\ IdleCompress /\ IdleDialog
IdlePost ==
  /\ pPc = "idle" /\ pAttempt = 0 /\ pSticker = FALSE /\ pSubmit = FALSE /\ pInputs = <<>>
  /\ pNodeIds = <<>> /\ pFiles = {} /\ pEvents = <<>> /\ pLog = <<>>
  /\ pIssue = FALSE /\ pCoverReady = FALSE /\ pTopReady = FALSE
  /\ pUploadOk = FALSE /\ pState = <<>> /\ pCopies = 0 /\ pConfirm = FALSE
  /\ pResult = "none" /\ pError = "none" /\ pConn = FALSE /\ pBrowser = "none"
IdleEditor ==
  /\ eTargets = <<>> /\ eInline = FALSE /\ eInitialIds = {} /\ ePc = "idle"
  /\ eNow = 0 /\ eStart = 0 /\ eNav = FALSE /\ eInfo = <<>> /\ eSession = "none"
  /\ eSent = {} /\ eError = "none" /\ ePasses = 0 /\ eDiff = {}
  /\ eChanged = FALSE /\ eStable = FALSE

(***************************************************************************)
(* SpecCdp: one connection used by arbitrary callers                       *)
(***************************************************************************)
CdpOn == \E m \in EventMethods, h \in Handlers :
           On(m, h) /\ UNCHANGED <<runVars, verVars, artVars, attVars, edVars, upVars, postVars, loginVars, visVars, moreVars>>
CdpSend == \E m \in CmdMethods, opt \in TimeoutOpts :
             nextId < MaxCmds /\ Send(m, opt) /\ UNCHANGED <<runVars, verVars, artVars, attVars, edVars, upVars, postVars, loginVars, visVars, moreVars>>
CdpTimer == \E id \in timers : TimerFire(id) /\ UNCHANGED <<runVars, verVars, artVars, attVars, edVars, upVars, postVars, loginVars, visVars, moreVars>>
CdpMessage == \E f \in Frames(nextId) :
                OnMessage(f) /\ UNCHANGED <<runVars, verVars, artVars, attVars, edVars, upVars, postVars, loginVars, visVars, moreVars>>
CdpClose == OnClose /\ UNCHANGED <<runVars, verVars, artVars, attVars, edVars, upVars, postVars, loginVars, visVars, moreVars>>

InitCdp == InitCdpVars /\ IdleRun /\ IdleVerifier /\ IdleArticle /\ IdleAttach /\ IdleEditor /\ IdleUpload /\ IdlePost /\ IdleLogin /\ IdleVisible /\ IdleMore
NextCdp == CdpOn \/ CdpSend \/ CdpTimer \/ CdpMessage \/ CdpClose
SpecCdp == InitCdp /\ [][NextCdp]_vars

(***************************************************************************)
(* SpecRun: postToWeChat driving the connection, one awaited command at a  *)
(* time, through the editor detection (waitForEditor and its caller).      *)
(* runStep names the await the run is at; runPc says whether it is about   *)
(* to issue it ("ready"), awaits its command ("awaiting"), sleeps          *)
(* ("sleeping"), left the section with an editor ("found"), threw          *)
(* ("failed") or ran its finally block ("ended").                          *)
(***************************************************************************)
MaxPasses == 2
NumCandidates == 4
NoOptions == [given |-> FALSE, ms |-> 0]

\* The CDP method each await of the section sends.
StepMethod(step) ==
  CASE step = "getTargets" -> "Target.getTargets"
    [] step = "finalTargets" -> "Target.getTargets"
    [] step = "navigate" -> "Page.navigate"
    [] OTHER -> "Runtime.evaluate"
\* The awaits inside try { ... } catch (err) { console.warn(...) }.
Caught(step) == step \in {"navigate", "navCheck"}
SendSteps == {"getTargets", "currentUrl", "inlineEditor", "navigate", "navCheck",
              "finalTargets"}
SleepSteps == {"navSleep", "loopSleep"}

InitRunVars ==
  /\ runPc = "ready" /\ runStep = "getTargets" /\ runAwait = 0
  /\ runError = "none" /\ runClosed = "no"
  /\ runPass = 1 /\ runCand = 0 /\ runNav = FALSE

\* The run is parked at an await whose promise is not settled: only then can
\* the event loop deliver a frame, a timer or the close event.
RunQuiescent ==
  \/ runPc = "sleeping"
  \/ runPc = "awaiting" /\ settled[runAwait] = <<>>

RunIssue ==
  /\ runPc = "ready" /\ runStep \in SendSteps
  /\ Send(StepMethod(runStep), NoOptions)
  /\ runPc' = "awaiting" /\ runAwait' = nextId + 1
  /\ UNCHANGED <<runStep, runError, runClosed, runPass, runCand, runNav>>
  /\ UNCHANGED <<verVars, artVars, attVars, edVars, upVars, postVars, loginVars, visVars, moreVars>>

RunSleep ==
  /\ runPc = "ready" /\ runStep \in SleepSteps
  /\ runPc' = "sleeping"
  /\ UNCHANGED <<runStep, runAwait, runError, runClosed, runPass, runCand, runNav>>
  /\ UNCHANGED <<cdpVars, verVars, artVars, attVars, edVars, upVars, postVars, loginVars, visVars, moreVars>>

\* for (const url of candidateUrls): the next candidate, or the loop's sleep.
NextCandidate ==
  IF runCand < NumCandidates
  THEN runStep' = "navigate" /\ runCand' = runCand + 1
  ELSE runStep' = "loopSleep" /\ runCand' = runCand

RunWake ==
  /\ runPc = "sleeping"
  /\ \/ /\ runStep = "navSleep"
        /\ runPc' = "ready" /\ runStep' = "navCheck"
        /\ UNCHANGED <<runPass, runCand>>
     \/ /\ runStep = "loopSleep" /\ runPass < MaxPasses
        /\ runPc' = "ready" /\ runStep' = "getTargets" /\ runPass' = runPass + 1
        /\ UNCHANGED runCand
     \/ /\ runStep = "loopSleep" /\ runPass >= MaxPasses
        /\ runPc' = "ready" /\ runStep' = "finalTargets"
        /\ UNCHANGED <<runPass, runCand>>
  /\ UNCHANGED <<runAwait, runError, runClosed, runNav>>
  /\ UNCHANGED <<cdpVars, verVars, artVars, attVars, edVars, upVars, postVars, loginVars, visVars, moreVars>>

\* The continuation of `await cdp.send(...)`, run as soon as the promise is
\* settled; the first call of resolve / reject decides the promise.
RunResume ==
  /\ runPc = "awaiting" /\ settled[runAwait] # <<>>
  /\ LET o == settled[runAwait][1] IN
       IF o.how = "reject"
       THEN IF Caught(runStep)
            THEN /\ runPc' = "ready" /\ NextCandidate
                 /\ UNCHANGED <<runError, runNav>>
            ELSE /\ runPc' = "failed" /\ runError' = o.why
                 /\ UNCHANGED <<runStep, runCand, runNav>>
       ELSE \/ /\ runStep \in {"getTargets", "inlineEditor", "navCheck"}
               /\ runPc' = "found"
               /\ UNCHANGED <<runStep, runError, runCand, runNav>>
            \/ /\ runStep = "getTargets"
               /\ runPc' = "ready" /\ runStep' = "currentUrl"
               /\ UNCHANGED <<runError, runCand, runNav>>
            \/ /\ runStep = "currentUrl"
               /\ runPc' = "ready" /\ runStep' = "inlineEditor"
               /\ UNCHANGED <<runError, runCand, runNav>>
            \/ /\ runStep = "inlineEditor" /\ ~runNav
               /\ runPc' = "ready" /\ runStep' = "navigate"
               /\ runNav' = TRUE /\ runCand' = 1
               /\ UNCHANGED runError
            \/ /\ runStep = "inlineEditor"
               /\ runPc' = "ready" /\ runStep' = "loopSleep"
               /\ UNCHANGED <<runError, runCand, runNav>>
            \/ /\ runStep = "navigate"
               /\ runPc' = "ready" /\ runStep' = "navSleep"
               /\ UNCHANGED <<runError, runCand, runNav>>
            \/ /\ runStep = "navCheck"
               /\ runPc' = "ready" /\ NextCandidate
               /\ UNCHANGED <<runError, runNav>>
            \/ /\ runStep = "finalTargets"
               /\ runPc' = "failed" /\ runError' = "Editor not found."
               /\ UNCHANGED <<runStep, runCand, runNav>>
  /\ UNCHANGED <<runAwait, runClosed, runPass>>
  /\ UNCHANGED <<cdpVars, verVars, artVars, attVars, edVars, upVars, postVars, loginVars, visVars, moreVars>>

\* finally { if (cdp) cdp.close(); }: the socket closes with nothing pending.
RunFinally ==
  /\ runPc = "failed"
  /\ runPc' = "ended"
  /\ IF wsOpen THEN OnClose ELSE UNCHANGED cdpVars
  /\ UNCHANGED <<runStep, runAwait, runError, runClosed, runPass, runCand, runNav>>
  /\ UNCHANGED <<verVars, artVars, attVars, edVars, upVars, postVars, loginVars, visVars, moreVars>>

\* The browser answers a delivered command, with a result or a protocol error.
RunResponse ==
  /\ RunQuiescent /\ runPc = "awaiting" /\ runAwait \in wire
  /\ \E e \in {"none", "message"} :
       OnMessage([malformed |-> FALSE, id |-> runAwait, method |-> NoMethod,
                  params |-> NoParams, err |-> e])
  /\ UNCHANGED <<runVars, verVars, artVars, attVars, edVars, upVars, postVars, loginVars, visVars, moreVars>>

RunTimer ==
  /\ RunQuiescent
  /\ \E id \in timers : TimerFire(id)
  /\ UNCHANGED <<runVars, verVars, artVars, attVars, edVars, upVars, postVars, loginVars, visVars, moreVars>>

\* The transport closes under the run (browser quit, socket dropped).
RunTransportClose ==
  /\ RunQuiescent
  /\ OnClose
  /\ runClosed' = IF runPc = "awaiting" THEN "pending" ELSE "sleeping"
  /\ UNCHANGED <<runPc, runStep, runAwait, runError, runPass, runCand, runNav>>
  /\ UNCHANGED <<verVars, artVars, attVars, edVars, upVars, postVars, loginVars, visVars, moreVars>>

InitRun == InitCdpVars /\ InitRunVars /\ IdleVerifier /\ IdleArticle /\ IdleAttach /\ IdleEditor /\ IdleUpload /\ IdlePost /\ IdleLogin /\ IdleVisible /\ IdleMore
NextRun ==
  \/ RunIssue \/ RunSleep \/ RunWake \/ RunResume \/ RunFinally
  \/ RunResponse \/ RunTimer \/ RunTransportClose
SpecRun == InitRun /\ [][NextRun]_vars

(***************************************************************************)
(* SpecVerifier: waitForImagesUploaded.  Time is in milliseconds; vNow is  *)
(* Date.now().                                                             *)
(***************************************************************************)
MinWaitMs == 8000
PollSleepMs == 800
GraceMs == 6000
DefaultUploadTimeoutMs == 45000
RetryUploadTimeoutMs == 30000
\* timeoutMs as the two callers pass it (first attempt, retry)
UploadTimeouts == {DefaultUploadTimeoutMs, RetryUploadTimeoutMs}

MaxCount == 2
MaxImages == 2
\* Round-trip time of one Runtime.evaluate, and the clock at the call
Latencies == {0, 400}
StartTimes == {5000}

\* One parsed sample: { count, uploading, hasCoverStyle }
Samples == [count : 0..MaxCount, uploading : 0..1, hasCoverStyle : BOOLEAN]

InitVerifierVars ==
  /\ vPc = "loop"
  /\ vStart \in StartTimes /\ vNow = vStart
  /\ vTimeout \in UploadTimeouts
  /\ vExpected \in 1..MaxImages
  /\ vBest = 0 /\ vSample = <<>> /\ vFirstOk = FALSE /\ vOutcome = "none"

Max(a, b) == IF a >= b THEN a ELSE b

\* const enoughWait = elapsed >= minWaitMs
EnoughWaitAlways(elapsed) == TRUE
EnoughWait(elapsed) == elapsed >= MinWaitMs
\* const hasVisualSignal = parsed.count >= expectedCount || parsed.hasCoverStyle
HasVisualSignalBest(sm, expected) == vBest >= expected \/ sm.hasCoverStyle
HasVisualSignal(sm, expected) == sm.count >= expected \/ sm.hasCoverStyle
\* if (enoughWait && hasVisualSignal && parsed.uploading === 0)
LikelyComplete(sm, expected, elapsed) ==
  EnoughWait(elapsed) /\ HasVisualSignal(sm, expected) /\ sm.uploading = 0

\* Date.now() once await sleep(800) is over
ClockAfterSleepStuck(t) == t
ClockAfterSleep(t) == t + PollSleepMs

\* One pass of the while loop whose condition holds: the sample is taken, the
\* decision made, and the pass either returns or sleeps.
VerifierPoll ==
  /\ vPc = "loop" /\ vNow - vStart < vTimeout
  /\ \E sm \in Samples, lat \in Latencies :
       LET elapsed == (vNow + lat) - vStart IN
         /\ vSample' = <<sm>>
         /\ vBest' = Max(vBest, sm.count)
         /\ vFirstOk' = IF vSample = <<>>
                         THEN HasVisualSignal(sm, vExpected) /\ sm.uploading = 0
                         ELSE vFirstOk
         /\ IF LikelyComplete(sm, vExpected, elapsed)
            THEN vPc' = "done" /\ vOutcome' = "complete" /\ vNow' = vNow + lat
            ELSE vPc' = "loop" /\ vOutcome' = vOutcome
                 /\ vNow' = ClockAfterSleep(vNow + lat)
  /\ UNCHANGED <<vStart, vTimeout, vExpected>>
  /\ UNCHANGED <<cdpVars, runVars, artVars, attVars, edVars, upVars, postVars, loginVars, visVars, moreVars>>

\* The sampling command is rejected (protocol error, timeout, closed
\* connection): the await throws out of the function.
VerifierThrow ==
  /\ vPc = "loop" /\ vNow - vStart < vTimeout
  /\ vPc' = "done" /\ vOutcome' = "threw"
  /\ UNCHANGED <<vNow, vStart, vTimeout, vExpected, vBest, vSample, vFirstOk>>
  /\ UNCHANGED <<cdpVars, runVars, artVars, attVars, edVars, upVars, postVars, loginVars, visVars, moreVars>>

\* The loop condition fails: warn, await sleep(6_000), return.
VerifierGrace ==
  /\ vPc = "loop" /\ ~(vNow - vStart < vTimeout)
  /\ vPc' = "done" /\ vOutcome' = "grace" /\ vNow' = vNow + GraceMs
  /\ UNCHANGED <<vStart, vTimeout, vExpected, vBest, vSample, vFirstOk>>
  /\ UNCHANGED <<cdpVars, runVars, artVars, attVars, edVars, upVars, postVars, loginVars, visVars, moreVars>>

InitVerifier == InitCdpVars /\ IdleRun /\ InitVerifierVars /\ IdleArticle /\ IdleAttach /\ IdleEditor /\ IdleUpload /\ IdlePost /\ IdleLogin /\ IdleVisible /\ IdleMore
NextVerifier == VerifierPoll \/ VerifierThrow \/ VerifierGrace
SpecVerifier == InitVerifier /\ [][NextVerifier]_vars
\* The event loop runs every continuation that is ready: a sample is
\* answered or rejected, a sleep ends.
SpecVerifierLive == SpecVerifier /\ WF_vars(NextVerifier)

(***************************************************************************)
(* SpecUpload: the upload wait of postToWeChat (not the sticker flow):     *)
(* waitForImagesUploaded, then detectImageUploadIssue, then the retry with *)
(* its own wait and detection, then the verdict.                           *)
(***************************************************************************)
InitUploadVars == uPhase = "first" /\ uIssue \in {"none", "fromStart"} /\ uDetected = <<>>

\* A failure phrase shows up in the page while the verifier polls.
UploadIssueAppears ==
  /\ uPhase \in {"first", "retry"} /\ vPc = "loop" /\ uIssue = "none"
  /\ uIssue' = "later"
  /\ UNCHANGED <<uPhase, uDetected>>
  /\ UNCHANGED <<cdpVars, runVars, verVars, artVars, attVars, edVars, postVars, loginVars, visVars, moreVars>>

\* The verifier has returned: detectImageUploadIssue is called, and then
\* either the retry sets the files again and waits with the shorter timeout,
\* or the verdict is given.
UploadDetect ==
  /\ uPhase \in {"first", "retry"} /\ vPc = "done"
  /\ vOutcome \in {"complete", "grace"}
  /\ uDetected' = Append(uDetected, uIssue # "none")
  /\ IF uPhase = "first" /\ uIssue # "none"
     THEN /\ uPhase' = "retry"
          /\ uIssue' \in {"none", "fromStart"}
          /\ vPc' = "loop" /\ vStart' \in StartTimes /\ vNow' = vStart'
          /\ vTimeout' = RetryUploadTimeoutMs
          /\ vBest' = 0 /\ vSample' = <<>> /\ vFirstOk' = FALSE
          /\ vOutcome' = "none" /\ UNCHANGED vExpected
     ELSE /\ \E uploadOk \in BOOLEAN :
               uPhase' = IF uIssue # "none" \/ ~uploadOk THEN "failed" ELSE "ok"
          /\ UNCHANGED <<uIssue, verVars>>
  /\ UNCHANGED <<cdpVars, runVars, artVars, attVars, edVars, postVars, loginVars, visVars, moreVars>>

\* The verifier threw: the error leaves postToWeChat.
UploadThrown ==
  /\ uPhase \in {"first", "retry"} /\ vPc = "done" /\ vOutcome = "threw"
  /\ uPhase' = "failed"
  /\ UNCHANGED <<uIssue, uDetected>>
  /\ UNCHANGED <<cdpVars, runVars, verVars, artVars, attVars, edVars, postVars, loginVars, visVars, moreVars>>

InitUpload ==
  /\ InitCdpVars /\ IdleRun /\ IdleArticle /\ IdleAttach /\ IdleEditor
  /\ InitVerifierVars /\ vTimeout = DefaultUploadTimeoutMs /\ InitUploadVars /\ IdleLogin /\ IdleVisible /\ IdlePost /\ IdleMore
NextUpload ==
  \/ VerifierPoll \/ VerifierThrow \/ VerifierGrace
  \/ UploadIssueAppears \/ UploadDetect \/ UploadThrown
SpecUpload == InitUpload /\ [][NextUpload]_vars

(***************************************************************************)
(* SpecArticle: postArticle, from the image loop to the draft save.  The   *)
(* editor document is the sequence of its nodes in tree-walker order; a    *)
(* text is a sequence of characters.                                       *)
(***************************************************************************)
MaxArticleImages == 2
MaxPolls == 24

UpperSeq == <<"A", "C", "D", "E", "G", "H", "I", "L", "M", "O", "P", "R">>
LowerSeq == <<"a", "c", "d", "e", "g", "h", "i", "l", "m", "o", "p", "r">>
DigitSeq == <<"0", "1", "2", "3", "4", "5", "6", "7", "8", "9">>
Range(q) == {q[k] : k \in DOMAIN q}

\* /[a-zA-Z0-9]/.test(ch)
IsAlnum(c) == c \in Range(UpperSeq) \cup Range(LowerSeq) \cup Range(DigitSeq)
\* String.prototype.toLowerCase, one character
ToLower(c) ==
  IF c \in Range(UpperSeq)
  THEN LowerSeq[CHOOSE k \in DOMAIN UpperSeq : UpperSeq[k] = c]
  ELSE c
\* normalize = (value) => value.replace(/[^a-zA-Z0-9]+/g, '').toLowerCase()
Normalize(text) ==
  LET kept == SelectSeq(text, IsAlnum)
  IN  [k \in 1..Len(kept) |-> ToLower(kept[k])]

\* Decimal digits of a counter value
DigitsOf(n) ==
  IF n < 10 THEN <<DigitSeq[n + 1]>>
  ELSE <<DigitSeq[(n \div 10) + 1], DigitSeq[(n % 10) + 1]>>
\* `IMAGE_PLACEHOLDER_${++imageCounter}`
Placeholder(n) ==
  <<"I", "M", "A", "G", "E", "_", "P", "L", "A", "C", "E", "H", "O", "L", "D",
    "E", "R", "_">> \o DigitsOf(n)

\* String.prototype.indexOf: zero-based index of the first occurrence, or -1
IndexOf(text, pat) ==
  LET at == {k \in 0..(Len(text) - Len(pat)) :
               SubSeq(text, k + 1, k + Len(pat)) = pat}
  IN  IF at = {} THEN -1 ELSE CHOOSE k \in at : \A m \in at : k <= m

\* Zero-based index in text of its alphanumeric character number k (from 0),
\* as the counting scan of the fallback finds it; -1 when there is none.
NthAlnum(text, k) ==
  LET at == {i \in 1..Len(text) :
               /\ IsAlnum(text[i])
               /\ Cardinality({j \in 1..(i - 1) : IsAlnum(text[j])}) = k}
  IN  IF at = {} THEN -1 ELSE (CHOOSE i \in at : TRUE) - 1

TextNode(t) == [kind |-> "text", s |-> t, of |-> 0]
ImgNode(n) == [kind |-> "img", s |-> <<>>, of |-> n]
NoHit == [hit |-> FALSE, from |-> 0, to |-> 0, ok |-> FALSE]

\* What one text node yields in the walker's loop body: the range selected
\* (zero-based, end exclusive) and the value returned, or no hit.
NodeHit(text, placeholder) ==
  LET idx == IndexOf(text, placeholder)
      needle == Normalize(placeholder)
      normIdx == IF needle # <<>> THEN IndexOf(Normalize(text), needle) ELSE -1
      rawStart == NthAlnum(text, normIdx)
      rawLast == NthAlnum(text, normIdx + Len(needle) - 1)
  IN  IF idx # -1
      THEN [hit |-> TRUE, from |-> idx, to |-> idx + Len(placeholder),
            ok |-> SubSeq(text, idx + 1, idx + Len(placeholder)) = placeholder]
      ELSE IF normIdx # -1 /\ rawStart # -1 /\ rawLast # -1
      THEN [hit |-> TRUE, from |-> rawStart, to |-> rawLast + 1,
            ok |-> Normalize(SubSeq(text, rawStart + 1, rawLast + 1)) = needle]
      ELSE NoHit

\* selectAndReplacePlaceholder over the whole document: the first text node
\* with a hit decides.
SelectAndReplacePlaceholder(doc, placeholder) ==
  LET hits == {k \in DOMAIN doc :
                 doc[k].kind = "text" /\ NodeHit(doc[k].s, placeholder).hit}
  IN  IF hits = {} THEN [node |-> 0] @@ NoHit
      ELSE LET k == CHOOSE h \in hits : \A m \in hits : h <= m
           IN  [node |-> k] @@ NodeHit(doc[k].s, placeholder)

\* The text of the current selection
SelectedText(doc, sel) ==
  IF sel = <<>> THEN <<>>
  ELSE SubSeq(doc[sel[1].node].s, sel[1].from + 1, sel[1].to)

\* document.execCommand('delete'): removes the selected range
DeleteSelected(doc, sel) ==
  IF sel = <<>> THEN doc
  ELSE LET k == sel[1].node
           t == doc[k].s
       IN  [doc EXCEPT ![k] =
              TextNode(SubSeq(t, 1, sel[1].from) \o SubSeq(t, sel[1].to + 1, Len(t)))]
\* The caret left behind by the deletion
CaretAfterDelete(sel) ==
  IF sel = <<>> THEN sel
  ELSE <<[node |-> sel[1].node, from |-> sel[1].from, to |-> sel[1].from]>>

\* Pasting the clipboard image at the caret splits the text node around it.
PasteImage(doc, sel, n) ==
  IF sel = <<>> THEN Append(doc, ImgNode(n))
  ELSE LET k == sel[1].node
           t == doc[k].s
           before == SubSeq(t, 1, sel[1].from)
           after == SubSeq(t, sel[1].to + 1, Len(t))
       IN  SubSeq(doc, 1, k - 1)
           \o (IF before = <<>> THEN <<>> ELSE <<TextNode(before)>>)
           \o <<ImgNode(n)>>
           \o (IF after = <<>> THEN <<>> ELSE <<TextNode(after)>>)
           \o SubSeq(doc, k + 1, Len(doc))

\* How a placeholder paragraph can look once the HTML has gone through the
\* editor's paste handling.
Forms == {"exact", "inline", "spaced", "missing"}
Spaced(t) == [k \in 1..Len(t) |-> IF t[k] = "_" THEN " " ELSE t[k]]
FormNodes(form, n) ==
  CASE form = "exact" -> <<TextNode(Placeholder(n))>>
    [] form = "inline" -> <<TextNode(<<"A", " ">> \o Placeholder(n) \o <<".">>)>>
    [] form = "spaced" -> <<TextNode(Spaced(Placeholder(n)))>>
    [] form = "missing" -> <<>>
RECURSIVE DocOf(_, _)
DocOf(forms, n) ==
  IF n = 0 THEN <<TextNode(<<"H", "i">>)>>
  ELSE DocOf(forms, n - 1) \o FormNodes(forms[n], n)

\* How the text read back from the selection relates to the placeholder
ReadBack(text, placeholder) ==
  IF text = placeholder THEN "exact"
  ELSE IF Normalize(text) = Normalize(placeholder) THEN "normalized"
  ELSE "differs"

NoOps == [sel |-> "none", text |-> "none", selects |-> 0, copy |-> 0, del |-> 0,
          paste |-> 0]

InitArticleVars ==
  \E n \in 1..MaxArticleImages : \E forms \in [1..n -> Forms] :
    /\ aDoc = DocOf(forms, n)
    /\ aTask = [i \in 1..n |-> "pending"]
    /\ aOps = [i \in 1..n |-> NoOps]
    /\ aPc = "select" /\ aImg = 1 /\ aSel = <<>> /\ aFound = FALSE /\ aClip = 0
    /\ aDialog \in {"hidden", "visible"}
    /\ aSeen = FALSE /\ aPoll = 0 /\ aSubmits = 0 /\ aSubmitDlg = FALSE

\* if (!found) { ...; continue; }
FoundGateAlways(found) == TRUE
FoundGate(found) == found
\* i++ of the image loop
NextImageStuck == aImg
NextImage == aImg + 1
\* i < contentImages.length decides between the next pass and the code after
\* the loop (summary, then the originality resolver)
AfterPass == IF NextImage <= Len(aTask) THEN "select" ELSE "handle1"

submitVars == <<aDialog, aSeen, aPoll, aSubmits, aSubmitDlg>>

ArtSelect ==
  /\ aPc = "select"
  /\ LET r == SelectAndReplacePlaceholder(aDoc, Placeholder(aImg))
         sel == IF r.hit THEN <<[node |-> r.node, from |-> r.from, to |-> r.to]>>
                ELSE aSel
     IN  /\ aSel' = sel
         /\ aFound' = r.ok
         /\ aOps' = [aOps EXCEPT ![aImg].sel = IF r.ok THEN "true" ELSE "false",
                                  ![aImg].text =
                                     IF r.hit
                                     THEN ReadBack(SelectedText(aDoc, sel),
                                                   Placeholder(aImg))
                                     ELSE "none",
                                  ![aImg].selects = @ + 1]
         /\ IF FoundGate(r.ok)
            THEN /\ aTask' = [aTask EXCEPT ![aImg] = "selected"]
                 /\ aPc' = "copy" /\ aImg' = aImg
            ELSE /\ aTask' = aTask
                 /\ aPc' = AfterPass /\ aImg' = NextImage
  /\ UNCHANGED <<aDoc, aClip, submitVars>>
  /\ UNCHANGED <<cdpVars, runVars, verVars, attVars, edVars, upVars, postVars, loginVars, visVars, moreVars>>

\* if (result.status !== 0) throw new Error(`Failed to copy image: ...`):
\* nothing in postArticle catches it.
CopyFailedGoesOn == "delete"
CopyFailed == "aborted"

\* copyImageToClipboard: puts the image on the clipboard, or throws and the
\* function ends through its finally block.
ArtCopy ==
  /\ aPc = "copy"
  /\ aOps' = [aOps EXCEPT ![aImg].copy = @ + 1]
  /\ \/ /\ aClip' = aImg
        /\ aTask' = [aTask EXCEPT ![aImg] = "copied"]
        /\ aPc' = "delete"
     \/ /\ aPc' = CopyFailed
        /\ UNCHANGED <<aClip, aTask>>
  /\ UNCHANGED <<aImg, aDoc, aSel, aFound, submitVars>>
  /\ UNCHANGED <<cdpVars, runVars, verVars, attVars, edVars, upVars, postVars, loginVars, visVars, moreVars>>

ArtDelete ==
  /\ aPc = "delete"
  /\ aDoc' = DeleteSelected(aDoc, aSel)
  /\ aSel' = CaretAfterDelete(aSel)
  /\ aOps' = [aOps EXCEPT ![aImg].del = @ + 1]
  /\ aTask' = [aTask EXCEPT ![aImg] = "deleted"]
  /\ aPc' = "paste"
  /\ UNCHANGED <<aImg, aFound, aClip, submitVars>>
  /\ UNCHANGED <<cdpVars, runVars, verVars, attVars, edVars, upVars, postVars, loginVars, visVars, moreVars>>

\* activateChrome, then the system paste keystroke: it lands in the editor
\* or, when the window lost focus, nowhere.
ArtPaste ==
  /\ aPc = "paste"
  /\ \E lands \in BOOLEAN :
       aDoc' = IF lands /\ aClip # 0 THEN PasteImage(aDoc, aSel, aClip) ELSE aDoc
  /\ aSel' = <<>>
  /\ aOps' = [aOps EXCEPT ![aImg].paste = @ + 1]
  /\ aTask' = [aTask EXCEPT ![aImg] = "pasted"]
  /\ aPc' = "count"
  /\ UNCHANGED <<aImg, aFound, aClip, submitVars>>
  /\ UNCHANGED <<cdpVars, runVars, verVars, attVars, edVars, upVars, postVars, loginVars, visVars, moreVars>>

\* sleep(3000), the image count is read and logged, the pass ends.
ArtCount ==
  /\ aPc = "count"
  /\ aTask' = [aTask EXCEPT ![aImg] = "checked"]
  /\ aImg' = NextImage
  /\ aPc' = AfterPass
  /\ UNCHANGED <<aDoc, aSel, aFound, aClip, aOps, submitVars>>
  /\ UNCHANGED <<cdpVars, runVars, verVars, attVars, edVars, upVars, postVars, loginVars, visVars, moreVars>>

\* isOriginalDialogVisible: the dialog is laid out, closing or not
IsOriginalDialogVisible == aDialog # "hidden"

loopVars == <<aImg, aDoc, aSel, aFound, aClip, aTask, aOps>>

\* handleOriginalDialogIfPresent up to its polling loop: returns false when
\* no dialog is there; otherwise fills the fields and clicks the primary
\* button, whose result it does not look at.
ArtResolve ==
  /\ aPc \in {"handle1", "handle2"}
  /\ IF ~IsOriginalDialogVisible
     THEN /\ aPc' = IF aPc = "handle1" THEN "click1" ELSE "click2"
          /\ UNCHANGED <<aDialog, aSeen, aPoll>>
     ELSE /\ \E accepted \in BOOLEAN :
               aDialog' = IF accepted THEN "closing" ELSE aDialog
          /\ aSeen' = TRUE /\ aPoll' = 0
          /\ aPc' = IF aPc = "handle1" THEN "poll1" ELSE "poll2"
  /\ UNCHANGED <<aSubmits, aSubmitDlg, loopVars>>
  /\ UNCHANGED <<cdpVars, runVars, verVars, attVars, edVars, upVars, postVars, loginVars, visVars, moreVars>>

\* for (let i = 0; i < 24; i++) { if (!visible) break; await sleep(250); }
\* return true;
ArtResolvePoll ==
  /\ aPc \in {"poll1", "poll2"}
  /\ IF aPoll < MaxPolls /\ IsOriginalDialogVisible
     THEN aPoll' = aPoll + 1 /\ aPc' = aPc
     ELSE aPoll' = aPoll /\ aPc' = IF aPc = "poll1" THEN "click1" ELSE "click2"
  /\ UNCHANGED <<aDialog, aSeen, aSubmits, aSubmitDlg, loopVars>>
  /\ UNCHANGED <<cdpVars, runVars, verVars, attVars, edVars, upVars, postVars, loginVars, visVars, moreVars>>

\* A confirmed dialog leaves the page some time after the click.
ArtDialogCloses ==
  /\ aPc \notin {"idle", "done", "aborted"}
  /\ aDialog = "closing"
  /\ aDialog' = "hidden"
  /\ UNCHANGED <<aPc, aSeen, aPoll, aSubmits, aSubmitDlg, loopVars>>
  /\ UNCHANGED <<cdpVars, runVars, verVars, attVars, edVars, upVars, postVars, loginVars, visVars, moreVars>>

\* After the first click the dialog is looked for; after the second the run
\* goes on to the toast.
AfterClickLooksAgain(pc) == "check"
AfterClick(pc) == IF pc = "click1" THEN "check" ELSE "saved"

\* document.querySelector('#js_submit button').click(), then the sleep; the
\* page may answer the save with the originality dialog.
ArtSubmitClick ==
  /\ aPc \in {"click1", "click2"}
  /\ aSubmits' = aSubmits + 1
  /\ aSubmitDlg' = (aSubmitDlg \/ IsOriginalDialogVisible)
  /\ \E raised \in BOOLEAN :
       aDialog' = IF raised /\ aDialog = "hidden" THEN "visible" ELSE aDialog
  /\ aPc' = AfterClick(aPc)
  /\ UNCHANGED <<aSeen, aPoll, loopVars>>
  /\ UNCHANGED <<cdpVars, runVars, verVars, attVars, edVars, upVars, postVars, loginVars, visVars, moreVars>>

\* if (await isOriginalDialogVisible(session)) { ... }
ArtCheckAfterSave ==
  /\ aPc = "check"
  /\ aPc' = IF IsOriginalDialogVisible THEN "handle2" ELSE "saved"
  /\ UNCHANGED <<submitVars, loopVars>>
  /\ UNCHANGED <<cdpVars, runVars, verVars, attVars, edVars, upVars, postVars, loginVars, visVars, moreVars>>

\* The toast is looked up, and the finally block closes the connection.
ArtFinish ==
  /\ aPc = "saved"
  /\ aPc' = "done"
  /\ UNCHANGED <<submitVars, loopVars>>
  /\ UNCHANGED <<cdpVars, runVars, verVars, attVars, edVars, upVars, postVars, loginVars, visVars, moreVars>>

InitArticle == InitCdpVars /\ IdleRun /\ IdleVerifier /\ InitArticleVars /\ IdleAttach /\ IdleEditor /\ IdleUpload /\ IdlePost /\ IdleLogin /\ IdleVisible /\ IdleMore
NextArticle ==
  \/ ArtSelect \/ ArtCopy \/ ArtDelete \/ ArtPaste \/ ArtCount
  \/ ArtResolve \/ ArtResolvePoll \/ ArtDialogCloses
  \/ ArtSubmitClick \/ ArtCheckAfterSave \/ ArtFinish
SpecArticle == InitArticle /\ [][NextArticle]_vars

(***************************************************************************)
(* SpecAttach: the places that call Target.attachToTarget, each with the   *)
(* commands it sends on the session it obtained, up to the first command   *)
(* that is not an enablement.                                              *)
(***************************************************************************)
Domains == {"Page", "Runtime", "DOM"}
EnablePRD == <<"Page.enable", "Runtime.enable", "DOM.enable">>
AttachSites == {"postToWeChat.page", "postToWeChat.editor", "postArticle.editor",
                "copyHtmlFromBrowser"}
\* The commands a site sends on its session after the attach.
SiteCommands(site) ==
  CASE site = "postToWeChat.page" -> EnablePRD \o <<"Runtime.evaluate">>
    [] site = "postToWeChat.editor" -> EnablePRD \o EnablePRD \o <<"Runtime.evaluate">>
    [] site = "postArticle.editor" -> EnablePRD \o <<"Runtime.evaluate">>
    [] site = "copyHtmlFromBrowser" ->
         <<"Page.enable", "Runtime.enable", "Runtime.evaluate">>
\* The domain an enablement command enables
EnabledBy(method) ==
  CASE method = "Page.enable" -> {"Page"}
    [] method = "Runtime.enable" -> {"Runtime"}
    [] method = "DOM.enable" -> {"DOM"}
    [] OTHER -> {}
IsEnable(method) == EnabledBy(method) # {}

NoSession == [at |-> 0, enabled |-> {}, used |-> FALSE, usedWith |-> {},
              threw |-> FALSE]
InitAttachVars == sess = [site \in AttachSites |-> NoSession]

\* Target.attachToTarget is answered with a session id.
AttachSession(site) ==
  /\ sess[site].at = 0 /\ ~sess[site].threw
  /\ sess' = [sess EXCEPT ![site].at = 1]
  /\ UNCHANGED <<cdpVars, runVars, verVars, artVars, edVars, upVars, postVars, loginVars, visVars, moreVars>>

\* The site's next command is sent on its session and answered.
SessionCommand(site) ==
  /\ sess[site].at \in 1..Len(SiteCommands(site)) /\ ~sess[site].threw
  /\ LET method == SiteCommands(site)[sess[site].at] IN
       sess' = [sess EXCEPT
                  ![site].at = @ + 1,
                  ![site].enabled = @ \cup EnabledBy(method),
                  ![site].used = @ \/ ~IsEnable(method),
                  ![site].usedWith = IF ~IsEnable(method) /\ ~sess[site].used
                                     THEN sess[site].enabled ELSE @]
  /\ UNCHANGED <<cdpVars, runVars, verVars, artVars, edVars, upVars, postVars, loginVars, visVars, moreVars>>

\* The attach or the site's next command is rejected: the await throws.
SessionReject(site) ==
  /\ sess[site].at \in 0..Len(SiteCommands(site)) /\ ~sess[site].threw
  /\ sess' = [sess EXCEPT ![site].threw = TRUE]
  /\ UNCHANGED <<cdpVars, runVars, verVars, artVars, edVars, upVars, postVars, loginVars, visVars, moreVars>>

InitAttach == InitCdpVars /\ IdleRun /\ IdleVerifier /\ IdleArticle /\ InitAttachVars /\ IdleEditor /\ IdleUpload /\ IdlePost /\ IdleLogin /\ IdleVisible /\ IdleMore
NextAttach ==
  \E site \in AttachSites :
    AttachSession(site) \/ SessionCommand(site) \/ SessionReject(site)
SpecAttach == InitAttach /\ [][NextAttach]_vars

(***************************************************************************)
(* SpecEditor: postToWeChat from the snapshot of the target ids, through   *)
(* the menu click and waitForEditor, to the commands sent once the editor  *)
(* is found.  Commands are answered here; SpecRun covers the ones that are *)
(* not.  Time is in milliseconds.                                          *)
(***************************************************************************)
EditorPollMs == 30000
DirectNavAfterMs == 9000
MenuSleepMs == 3000
NavSleepMs == 1400
LoopSleepMs == 1000

\* t1 is pageTarget, the page the first session is attached to.
PageTarget == "t1"
TargetIds == {"t1", "t2", "t3"}
\* A target's type and url, as far as the code looks at them
Kinds == {"absent", "weixinHome", "weixinEditor", "foreignAppmsg", "worker"}
\* t.type === 'page'
IsPage(kind) == kind \in {"weixinHome", "weixinEditor", "foreignAppmsg"}
\* t.url.includes('mp.weixin.qq.com')
InWeixin(kind) == kind \in {"weixinHome", "weixinEditor", "worker"}
\* t.url.includes('appmsg')
HasAppmsg(kind) == kind \in {"weixinEditor", "foreignAppmsg"}

\* targets.targetInfos.map(t => t.targetId)
PresentIds(targets) == {t \in DOMAIN targets : targets[t] # "absent"}
\* targets.targetInfos.filter(t => t.type === 'page')
PageTargets(targets) == {t \in PresentIds(targets) : IsPage(targets[t])}

\* pageTargets.find(t => !initialIds.has(t.targetId) && url in mp.weixin.qq.com):
\* the targets the predicate accepts; find returns the first in list order.
NewTabCandidatesAnyId(targets, initialIds) ==
  {t \in PageTargets(targets) : InWeixin(targets[t])}
NewTabCandidates(targets, initialIds) ==
  {t \in PageTargets(targets) : t \notin initialIds /\ InWeixin(targets[t])}
\* pageTargets.find(t => t.url.includes('appmsg'))
EditorTabCandidates(targets) ==
  {t \in PageTargets(targets) : HasAppmsg(targets[t])}

\* initialIds after a pass of the loop: the passes only read it.
SnapshotAfterPassMerged(targets) == eInitialIds \cup PresentIds(targets)
SnapshotAfterPass(targets) == eInitialIds

\* Where the run goes when waitForEditor returned null: throw, then finally.
AfterNotFoundFallsThrough == "attach"
AfterNotFound == "ended"

WorkSteps == <<"upload", "title", "content", "submit">>

InitEditorVars ==
  /\ eTargets \in [TargetIds -> Kinds]
  /\ eTargets[PageTarget] = "weixinHome" /\ eTargets["t3"] = "absent"
  /\ eInline = FALSE /\ eInitialIds = {} /\ ePc = "snapshot"
  /\ eNow = 0 /\ eStart = 0 /\ eNav = FALSE /\ eInfo = <<>>
  /\ eSession = PageTarget
  /\ eSent = {} /\ eError = "none" /\ ePasses = 0 /\ eDiff = {}
  /\ eChanged = FALSE /\ eStable = FALSE

others == <<cdpVars, runVars, verVars, artVars, attVars, upVars, postVars, loginVars, visVars, moreVars>>

\* const initialIds = new Set(initialTargets.targetInfos.map(t => t.targetId))
EdSnapshot ==
  /\ ePc = "snapshot"
  /\ eInitialIds' = PresentIds(eTargets)
  /\ ePc' = "click"
  /\ UNCHANGED <<eTargets, eInline, eNow, eStart, eNav, eInfo, eSession, eSent,
                 eError, ePasses, eDiff, eChanged, eStable>>
  /\ UNCHANGED others

\* The menu is clicked (or its href navigated to), sleep(3000), and
\* waitForEditor starts: const start = Date.now().
EdMenuClick ==
  /\ ePc = "click"
  /\ ePc' = "poll"
  /\ eNow' = eNow + MenuSleepMs /\ eStart' = eNow + MenuSleepMs
  /\ UNCHANGED <<eTargets, eInline, eInitialIds, eNav, eInfo, eSession, eSent,
                 eError, ePasses, eDiff, eChanged, eStable>>
  /\ UNCHANGED others

\* The browser, after the click: a tab opens, the attached page navigates to
\* the editor URL, or the editor shows up in the attached page.
EdWorld ==
  /\ ePc \in {"click", "poll"}
  /\ \/ /\ eTargets["t3"] = "absent"
        /\ \E k \in Kinds \ {"absent"} : eTargets' = [eTargets EXCEPT !["t3"] = k]
        /\ eChanged' = TRUE /\ UNCHANGED eInline
     \/ /\ eTargets[PageTarget] = "weixinHome"
        /\ eTargets' = [eTargets EXCEPT ![PageTarget] = "weixinEditor"]
        /\ eChanged' = TRUE /\ UNCHANGED eInline
     \/ /\ ~eInline /\ eInline' = TRUE
        /\ UNCHANGED <<eTargets, eChanged>>
  /\ UNCHANGED <<eInitialIds, ePc, eNow, eStart, eNav, eInfo, eSession, eSent,
                 eError, ePasses, eDiff, eStable>>
  /\ UNCHANGED others

Found(id, isNew, t) ==
  /\ eInfo' = <<[targetId |-> id, isNewTab |-> isNew]>>
  /\ ePc' = "attach" /\ eNow' = t
  /\ UNCHANGED <<eTargets, eInline, eNav>>

\* One pass of the while loop of waitForEditor whose condition holds.
EdPass ==
  /\ ePc = "poll" /\ eNow - eStart < EditorPollMs
  /\ ePasses' = ePasses + 1
  /\ eDiff' = NewTabCandidates(eTargets, eInitialIds)
  /\ eStable' = (ePasses > 0 /\ ~eChanged) /\ eChanged' = FALSE
  /\ eInitialIds' = SnapshotAfterPass(eTargets)
  /\ IF NewTabCandidates(eTargets, eInitialIds) # {}
     THEN \E t \in NewTabCandidates(eTargets, eInitialIds) : Found(t, TRUE, eNow)
     ELSE IF EditorTabCandidates(eTargets) # {}
     THEN \E t \in EditorTabCandidates(eTargets) :
            Found(t, t \notin eInitialIds, eNow)
     ELSE IF eInline \/ HasAppmsg(eTargets[PageTarget])
     THEN Found(PageTarget, FALSE, eNow)
     ELSE IF ~eNav /\ eNow - eStart > DirectNavAfterMs
     THEN \* direct navigation, tried once: no token, or the candidate URLs
          \* in turn until the editor shows after one of them
          /\ eNav' = TRUE
          /\ \/ /\ eNow' = eNow + LoopSleepMs /\ ePc' = ePc
                /\ UNCHANGED <<eTargets, eInline, eInfo>>
             \/ \E tried \in 1..NumCandidates, shown \in BOOLEAN :
                  /\ eTargets' = [eTargets EXCEPT ![PageTarget] = "weixinEditor"]
                  /\ eInline' = shown
                  /\ IF shown
                     THEN /\ eInfo' = <<[targetId |-> PageTarget, isNewTab |-> FALSE]>>
                          /\ ePc' = "attach" /\ eNow' = eNow + tried * NavSleepMs
                     ELSE /\ tried = NumCandidates
                          /\ eNow' = eNow + tried * NavSleepMs + LoopSleepMs
                          /\ ePc' = ePc /\ UNCHANGED eInfo
     ELSE /\ eNow' = eNow + LoopSleepMs /\ ePc' = ePc
          /\ UNCHANGED <<eTargets, eInline, eNav, eInfo>>
  /\ UNCHANGED <<eStart, eSession, eSent, eError>>
  /\ UNCHANGED others

\* The loop condition fails: return null; the caller lists the targets and
\* throws 'Editor not found.', and the finally block closes the connection.
EdNotFound ==
  /\ ePc = "poll" /\ ~(eNow - eStart < EditorPollMs)
  /\ ePc' = AfterNotFound
  /\ eError' = "Editor not found."
  /\ UNCHANGED <<eTargets, eInline, eInitialIds, eNow, eStart, eNav, eInfo,
                 eSession, eSent, ePasses, eDiff, eChanged, eStable>>
  /\ UNCHANGED others

\* if (editorInfo.isNewTab) { attach to editorInfo.targetId; sessionId = ... }
\* and the enablement commands on sessionId.
EdAttach ==
  /\ ePc = "attach"
  /\ eSession' = IF eInfo # <<>> /\ eInfo[1].isNewTab THEN eInfo[1].targetId
                  ELSE eSession
  /\ ePc' = WorkSteps[1]
  /\ UNCHANGED <<eTargets, eInline, eInitialIds, eNow, eStart, eNav, eInfo, eSent,
                 eError, ePasses, eDiff, eChanged, eStable>>
  /\ UNCHANGED others

\* The stages after the detection, each sending its commands on sessionId.
EdWork ==
  /\ \E k \in 1..Len(WorkSteps) :
       /\ ePc = WorkSteps[k]
       /\ eSent' = eSent \cup {[step |-> WorkSteps[k], target |-> eSession]}
       /\ ePc' = IF k < Len(WorkSteps) THEN WorkSteps[k + 1] ELSE "ended"
  /\ UNCHANGED <<eTargets, eInline, eInitialIds, eNow, eStart, eNav, eInfo,
                 eSession, eError, ePasses, eDiff, eChanged, eStable>>
  /\ UNCHANGED others

InitEditor ==
  InitCdpVars /\ IdleRun /\ IdleVerifier /\ IdleArticle /\ IdleAttach /\ InitEditorVars
  /\ IdleUpload /\ IdlePost /\ IdleLogin /\ IdleVisible /\ IdleMore
NextEditor ==
  \/ EdSnapshot \/ EdMenuClick \/ EdWorld \/ EdPass \/ EdNotFound
  \/ EdAttach \/ EdWork
SpecEditor == InitEditor /\ [][NextEditor]_vars

(***************************************************************************)
(* SpecPost: postToWeChat from the upload entry to the finally block, on   *)
(* the session of the editor.  The upload verifier is one step that        *)
(* returns or throws; the page's answers (upload issue, cover ready,       *)
(* editor state, ...) are chosen freely at the step that reads them.       *)
(***************************************************************************)
MaxInputs == 2

\* The kinds of input[type=file] a page is built from.  cover: inside
\* #js_cover_description_area; selCover: inside .select-cover,
\* .first_appmsg_cover or .cover_drop_inner_wrp; dialog: inside a dialog or
\* popover; uploader: inside .weui-desktop-uploader; image: accept contains
\* "image"; top: under #js_content_top.
CoverInput ==
  [cover |-> TRUE, selCover |-> FALSE, dialog |-> FALSE, uploader |-> FALSE,
   image |-> TRUE, disabled |-> FALSE, visible |-> FALSE, multiple |-> FALSE,
   top |-> FALSE]
DialogInput ==
  [cover |-> FALSE, selCover |-> FALSE, dialog |-> TRUE, uploader |-> TRUE,
   image |-> TRUE, disabled |-> FALSE, visible |-> TRUE, multiple |-> TRUE,
   top |-> FALSE]
TopInput ==
  [cover |-> FALSE, selCover |-> FALSE, dialog |-> FALSE, uploader |-> FALSE,
   image |-> TRUE, disabled |-> FALSE, visible |-> FALSE, multiple |-> FALSE,
   top |-> TRUE]
PlainInput ==
  [cover |-> FALSE, selCover |-> FALSE, dialog |-> FALSE, uploader |-> FALSE,
   image |-> FALSE, disabled |-> FALSE, visible |-> FALSE, multiple |-> FALSE,
   top |-> FALSE]
DisabledInput ==
  [cover |-> FALSE, selCover |-> TRUE, dialog |-> FALSE, uploader |-> FALSE,
   image |-> FALSE, disabled |-> TRUE, visible |-> FALSE, multiple |-> FALSE,
   top |-> FALSE]
InputKinds == {CoverInput, DialogInput, TopInput, PlainInput, DisabledInput}
Pages == UNION {[1..n -> InputKinds] : n \in 1..MaxInputs}

\* The weights of findBestFileInputNodeIds.
ScoreCover == 140
ScoreSelectCover == 100
ScoreDialog == 120
ScoreImage == 50
ScoreEnabled == 20
ScoreVisible == 40
ScoreMultiple == 5
Score(input) ==
  (IF input.cover THEN ScoreCover ELSE 0)
  + (IF input.selCover THEN ScoreSelectCover ELSE 0)
  + (IF input.dialog THEN ScoreDialog ELSE 0)
  + (IF input.image THEN ScoreImage ELSE 0)
  + (IF ~input.disabled THEN ScoreEnabled ELSE 0)
  + (IF input.visible THEN ScoreVisible ELSE 0)
  + (IF input.multiple THEN ScoreMultiple ELSE 0)

\* for (const input of nodes) { ...; if (score > bestScore) { best = input } }:
\* the first node, in document order, that no other node outscores.
Best(inputs) ==
  CHOOSE i \in 1..Len(inputs) :
    /\ \A j \in 1..Len(inputs) : Score(inputs[j]) <= Score(inputs[i])
    /\ \A j \in 1..(i - 1) : Score(inputs[j]) < Score(inputs[i])

\* DOM.querySelectorAll: the matching nodes in document order.
Matching(inputs, Match(_)) ==
  SelectSeq([i \in 1..Len(inputs) |-> i], LAMBDA i : Match(inputs[i]))
IsCover(input) == input.cover
IsSelCover(input) == input.selCover
IsDialog(input) == input.dialog
IsUploader(input) == input.uploader
IsImage(input) == input.image
IsTop(input) == input.top
IsAny(input) == TRUE

\* The selector fallback of findBestFileInputNodeIds: the nodes of the first
\* selector that matches any.
SelectorFallback(inputs) ==
  LET c == Matching(inputs, IsCover)
      sc == Matching(inputs, IsSelCover)
      d == Matching(inputs, IsDialog)
      u == Matching(inputs, IsUploader)
      im == Matching(inputs, IsImage)
  IN  IF c # <<>> THEN c
      ELSE IF sc # <<>> THEN sc
      ELSE IF d # <<>> THEN d
      ELSE IF u # <<>> THEN u
      ELSE IF im # <<>> THEN im
      ELSE Matching(inputs, IsAny)

\* findBestFileInputNodeIds: the marked node when the marker is found again,
\* the selector fallback when it is not (the node was replaced meanwhile).
FindBestFileInputNodeIds(inputs, markFound) ==
  IF markFound THEN <<Best(inputs)>> ELSE SelectorFallback(inputs)
\* findAllFileInputNodeIds
FindAllFileInputNodeIds(inputs) == Matching(inputs, IsAny)
\* findTopImageFileInputNodeIds (its three selectors all lie under
\* #js_content_top)
FindTopImageFileInputNodeIds(inputs) == Matching(inputs, IsTop)

\* uploadInputNodeIds of the retry in the image-text flow
RetryInputNodeIds(inputs) == FindAllFileInputNodeIds(inputs)

\* dispatchFileInputChange: for each input that holds files, in document
\* order, an 'input' event and then a 'change' event.
EventsForChangeOnly(i) == <<[node |-> i, type |-> "change"]>>
EventsFor(i) == <<[node |-> i, type |-> "input"], [node |-> i, type |-> "change"]>>
RECURSIVE DispatchFileInputChange(_, _, _)
DispatchFileInputChange(inputs, files, i) ==
  IF i > Len(inputs) THEN <<>>
  ELSE (IF i \in files THEN EventsFor(i) ELSE <<>>)
       \o DispatchFileInputChange(inputs, files, i + 1)

NoState == <<>>
InitPostVars ==
  /\ pPc = "open" /\ pAttempt = 1
  /\ pSticker \in BOOLEAN /\ pSubmit \in BOOLEAN
  /\ pInputs \in Pages
  /\ pNodeIds = <<>> /\ pFiles = {} /\ pEvents = <<>> /\ pLog = <<>>
  /\ pIssue = FALSE /\ pCoverReady = FALSE /\ pTopReady = FALSE
  /\ pUploadOk = FALSE /\ pState = NoState /\ pCopies = 0 /\ pConfirm = FALSE
  /\ pResult = "none" /\ pError = "none" /\ pConn = TRUE /\ pBrowser = "running"

postOthers == <<cdpVars, runVars, verVars, artVars, attVars, edVars, upVars,
                loginVars, visVars, moreVars>>
Did(step) == pLog' = Append(pLog, step)

\* The clicks that open the upload entry (first time and on the retry).
PostOpen ==
  /\ pPc = "open"
  /\ Did("openEntry") /\ pPc' = "find"
  /\ UNCHANGED <<pAttempt, pSticker, pSubmit, pInputs, pNodeIds, pFiles, pEvents, pIssue,
                 pCoverReady, pTopReady, pUploadOk, pState, pCopies, pConfirm, pResult,
                 pError, pConn, pBrowser>>
  /\ UNCHANGED postOthers

\* uploadInputNodeIds = ...; the finders throw when they find no input.
PostFind ==
  /\ pPc = "find"
  /\ \E markFound \in BOOLEAN :
       LET ids == IF pSticker THEN FindTopImageFileInputNodeIds(pInputs)
                  ELSE IF pAttempt = 1
                       THEN FindBestFileInputNodeIds(pInputs, markFound)
                       ELSE RetryInputNodeIds(pInputs)
       IN  /\ pNodeIds' = ids
           /\ IF ids = <<>>
              THEN pPc' = "failed" /\ pError' = "input not found"
              ELSE pPc' = "set" /\ pError' = pError
  /\ Did("find")
  /\ UNCHANGED <<pAttempt, pSticker, pSubmit, pInputs, pFiles, pEvents, pIssue,
                 pCoverReady, pTopReady, pUploadOk, pState, pCopies, pConfirm, pResult,
                 pConn, pBrowser>>
  /\ UNCHANGED postOthers

\* for (const nodeId of uploadInputNodeIds) DOM.setFileInputFiles(nodeId, ...)
PostSetFiles ==
  /\ pPc = "set"
  /\ pFiles' = pFiles \cup Range(pNodeIds)
  /\ pEvents' = <<>>
  /\ Did("setFiles") /\ pPc' = "dispatch"
  /\ UNCHANGED <<pAttempt, pSticker, pSubmit, pInputs, pNodeIds, pIssue, pCoverReady,
                 pTopReady, pUploadOk, pState, pCopies, pConfirm, pResult, pError,
                 pConn, pBrowser>>
  /\ UNCHANGED postOthers

PostDispatch ==
  /\ pPc = "dispatch"
  /\ pEvents' = DispatchFileInputChange(pInputs, pFiles, 1)
  /\ Did("dispatch") /\ pPc' = "wait"
  /\ UNCHANGED <<pAttempt, pSticker, pSubmit, pInputs, pNodeIds, pFiles, pIssue,
                 pCoverReady, pTopReady, pUploadOk, pState, pCopies, pConfirm, pResult,
                 pError, pConn, pBrowser>>
  /\ UNCHANGED postOthers

\* sleep(1200) in the sticker flow, waitForImagesUploaded otherwise (its
\* throw is PostReject).
PostWait ==
  /\ pPc = "wait"
  /\ Did(IF pSticker THEN "sleep" ELSE "verifier") /\ pPc' = "detect"
  /\ UNCHANGED <<pAttempt, pSticker, pSubmit, pInputs, pNodeIds, pFiles, pEvents, pIssue,
                 pCoverReady, pTopReady, pUploadOk, pState, pCopies, pConfirm, pResult,
                 pError, pConn, pBrowser>>
  /\ UNCHANGED postOthers

\* if (uploadIssue) { ...retry... }: taken after the first attempt only.
RetryAfter(attempt, issue) == attempt = 1 /\ issue

\* uploadIssue = detectImageUploadIssue; coverReady = verifyCoverReady;
\* topImageReady = isStickerFlow ? waitForTopImageReady : false
PostDetect ==
  /\ pPc = "detect"
  /\ \E issue \in BOOLEAN, cover \in BOOLEAN, top \in BOOLEAN :
       /\ pIssue' = issue /\ pCoverReady' = cover
       /\ pTopReady' = (pSticker /\ top)
       /\ IF RetryAfter(pAttempt, issue)
          THEN pAttempt' = pAttempt + 1 /\ pPc' = "open"
          ELSE pAttempt' = pAttempt /\ pPc' = "fallback"
  /\ Did("detect")
  /\ UNCHANGED <<pSticker, pSubmit, pInputs, pNodeIds, pFiles, pEvents, pUploadOk,
                 pState, pCopies, pConfirm, pResult, pError, pConn, pBrowser>>
  /\ UNCHANGED postOthers

\* if (!isStickerFlow && !coverReady && absolutePaths.length > 0) { paste the
\* first image through the clipboard; if (pasted) re-read issue and cover }
PostFallback ==
  /\ pPc = "fallback"
  /\ IF ~pSticker /\ ~pCoverReady
     THEN \E pasted \in BOOLEAN, issue \in BOOLEAN, cover \in BOOLEAN :
            /\ Did("pasteImage")
            /\ pIssue' = IF pasted THEN issue ELSE pIssue
            /\ pCoverReady' = IF pasted THEN cover ELSE pCoverReady
     ELSE UNCHANGED <<pLog, pIssue, pCoverReady>>
  /\ pPc' = "gate"
  /\ UNCHANGED <<pAttempt, pSticker, pSubmit, pInputs, pNodeIds, pFiles, pEvents,
                 pTopReady, pUploadOk, pState, pCopies, pConfirm, pResult, pError,
                 pConn, pBrowser>>
  /\ UNCHANGED postOthers

\* uploadOk = isLegacyCoverFlow ? coverReady
\*          : (isStickerFlow ? topImageReady : imageTextUploadReady)
UploadOk(legacy, sticker, cover, top, imageText) ==
  IF legacy THEN cover ELSE IF sticker THEN top ELSE imageText
\* if (uploadIssue || !uploadOk) throw new Error('Image upload failed...')
GateThrowsBoth(issue, ok) == issue /\ ~ok
GateThrows(issue, ok) == issue \/ ~ok

PostGate ==
  /\ pPc = "gate"
  /\ \E legacy \in BOOLEAN, imageText \in BOOLEAN :
       LET ok == UploadOk(legacy, pSticker, pCoverReady, pTopReady, imageText)
       IN  /\ pUploadOk' = ok
           /\ IF GateThrows(pIssue, ok)
              THEN pPc' = "failed" /\ pError' = "Image upload failed"
              ELSE pPc' = "title" /\ pError' = pError
  /\ Did("verify")
  /\ UNCHANGED <<pAttempt, pSticker, pSubmit, pInputs, pNodeIds, pFiles, pEvents, pIssue,
                 pCoverReady, pTopReady, pState, pCopies, pConfirm, pResult, pConn,
                 pBrowser>>
  /\ UNCHANGED postOthers

\* The title is written into #title.
PostTitle ==
  /\ pPc = "title"
  /\ Did("title") /\ pPc' = "insert"
  /\ UNCHANGED <<pAttempt, pSticker, pSubmit, pInputs, pNodeIds, pFiles, pEvents, pIssue,
                 pCoverReady, pTopReady, pUploadOk, pState, pCopies, pConfirm, pResult,
                 pError, pConn, pBrowser>>
  /\ UNCHANGED postOthers

\* clearContentEditor: the editor's content is selected and deleted.
ClearContentEditorKeeps(copies) == copies
ClearContentEditor(copies) == 0

\* The editor is focused and cleared, then insertContentLineByLine types the
\* content; lands: the text arrived in the editor.
PostInsert ==
  /\ pPc = "insert"
  /\ \E lands \in BOOLEAN :
       pCopies' = ClearContentEditor(pCopies) + (IF lands THEN 1 ELSE 0)
  /\ pLog' = pLog \o <<"clear", "insertLines">> /\ pPc' = "check"
  /\ UNCHANGED <<pAttempt, pSticker, pSubmit, pInputs, pNodeIds, pFiles, pEvents, pIssue,
                 pCoverReady, pTopReady, pUploadOk, pState, pConfirm, pResult,
                 pError, pConn, pBrowser>>
  /\ UNCHANGED postOthers

\* lineBreakMissing = expectedLineBreaks > 0 && editorState.lineBreaks === 0
\*                    && editorState.blockCount <= 1
\* multi: the content has a line break; flat: the editor shows no line break
\* and at most one block.
LineBreakMissingAnyContent(multi, flat) == flat
LineBreakMissing(multi, flat) == multi /\ flat
\* !isContentWritten(editorState, normalizedContent) || lineBreakMissing
CheckFailed(st) == ~st.written \/ LineBreakMissing(st.multi, st.flat)

\* isContentWritten needs text in the editor: an editor that holds nothing
\* of the content is never read as written.
Readings(copies) == IF copies >= 1 THEN BOOLEAN ELSE {FALSE}

\* editorState = readContentEditorState(...) after the line-by-line insert
PostCheck ==
  /\ pPc = "check"
  /\ \E multi \in BOOLEAN, written \in Readings(pCopies), flat \in BOOLEAN :
       LET st == [multi |-> multi, written |-> written, flat |-> flat,
                  first |-> [written |-> written, flat |-> flat]]
       IN  /\ pState' = <<st>>
           /\ pPc' = IF CheckFailed(st) THEN "recover" ELSE "verifyContent"
  /\ Did("readState")
  /\ UNCHANGED <<pAttempt, pSticker, pSubmit, pInputs, pNodeIds, pFiles, pEvents, pIssue,
                 pCoverReady, pTopReady, pUploadOk, pCopies, pConfirm, pResult,
                 pError, pConn, pBrowser>>
  /\ UNCHANGED postOthers

\* if (!recovered) insertContentAsHtml(...): recovered is the result of the
\* clipboard paste.
HtmlInsertRunsAlways(recovered) == TRUE
HtmlInsertRuns(recovered) == ~recovered

\* The editor is cleared and focused; with lineBreakMissing the HTML is
\* pasted through the clipboard (pasted: both clipboard scripts ended with
\* status 0), and insertContentAsHtml runs when that was not tried or did
\* not work; the state is read again.  lands: what was sent arrived in the
\* editor.
PostRecover ==
  /\ pPc = "recover"
  /\ \E pasted \in BOOLEAN, lands \in BOOLEAN :
       LET st == pState[1]
           tried == LineBreakMissing(st.multi, st.flat)
           recovered == tried /\ pasted
           html == HtmlInsertRuns(recovered)
           copies == ClearContentEditor(pCopies)
                     + (IF recovered /\ lands THEN 1 ELSE 0)
                     + (IF html /\ lands THEN 1 ELSE 0)
       IN  /\ pLog' = pLog \o <<"clear">>
                           \o (IF tried THEN <<"pasteHtml">> ELSE <<>>)
                           \o (IF html THEN <<"insertHtml">> ELSE <<>>)
                           \o <<"readState">>
           /\ pCopies' = copies
           /\ \E written \in Readings(copies), flat \in BOOLEAN :
                pState' = <<[st EXCEPT !.written = written, !.flat = flat]>>
  /\ pPc' = "verifyContent"
  /\ UNCHANGED <<pAttempt, pSticker, pSubmit, pInputs, pNodeIds, pFiles, pEvents, pIssue,
                 pCoverReady, pTopReady, pUploadOk, pConfirm, pResult, pError,
                 pConn, pBrowser>>
  /\ UNCHANGED postOthers

\* The two throws 'Content insert failed: ...' after the insertion: the text
\* is not detected, or multi-line content shows no line break.
InsertFailedTextOnly(st) == ~st.written
InsertFailed(st) == ~st.written \/ (st.multi /\ st.flat)

PostVerifyContent ==
  /\ pPc = "verifyContent"
  /\ IF InsertFailed(pState[1])
     THEN pPc' = "failed" /\ pError' = "Content insert failed"
     ELSE pPc' = "submit" /\ pError' = pError
  /\ UNCHANGED <<pAttempt, pSticker, pSubmit, pInputs, pNodeIds, pFiles, pEvents, pLog,
                 pIssue, pCoverReady, pTopReady, pUploadOk, pState, pCopies, pConfirm,
                 pResult, pConn, pBrowser>>
  /\ UNCHANGED postOthers

\* if (submit) { settings; document.querySelector('#js_submit')?.click();
\* sleep(3000); log 'Draft saved!' } else { log 'Article composed' }
\* present: #js_submit exists; confirmed: the page saved the draft.
SubmitBranchAlways(submit) == TRUE
SubmitBranch(submit) == submit

PostSubmit ==
  /\ pPc = "submit"
  /\ \E settings \in BOOLEAN, present \in BOOLEAN, confirmed \in BOOLEAN :
       IF SubmitBranch(pSubmit)
       THEN /\ pLog' = pLog \o (IF settings THEN <<"settings">> ELSE <<>>)
                            \o (IF present THEN <<"submitClick">>
                                ELSE <<"clickNoControl">>)
                            \o <<"sleep">>
            /\ pConfirm' = (present /\ confirmed)
            /\ pResult' = "saved"
       ELSE /\ pLog' = pLog /\ pConfirm' = pConfirm
            /\ pResult' = "composed"
  /\ pPc' = "finally"
  /\ UNCHANGED <<pAttempt, pSticker, pSubmit, pInputs, pNodeIds, pFiles, pEvents, pIssue,
                 pCoverReady, pTopReady, pUploadOk, pState, pCopies, pError, pConn,
                 pBrowser>>
  /\ UNCHANGED postOthers

\* A command of the current step is rejected (protocol error, timeout), or a
\* helper of the step throws: the error leaves the try block.
PostSteps == {"open", "find", "set", "dispatch", "wait", "detect", "fallback",
              "gate", "title", "insert", "check", "recover", "verifyContent",
              "submit"}
PostReject ==
  /\ pPc \in PostSteps
  /\ pPc' = "failed" /\ pError' = "step failed"
  /\ UNCHANGED <<pAttempt, pSticker, pSubmit, pInputs, pNodeIds, pFiles, pEvents, pLog,
                 pIssue, pCoverReady, pTopReady, pUploadOk, pState, pCopies, pConfirm,
                 pResult, pConn, pBrowser>>
  /\ UNCHANGED postOthers

\* finally { if (cdp) cdp.close(); }: the Chrome process is not touched.
ConnAfterFinallyOnSuccess(err) == err # "none"
ConnAfterFinally(err) == FALSE

PostFinally ==
  /\ pPc \in {"finally", "failed"}
  /\ pConn' = ConnAfterFinally(pError)
  /\ Did("close") /\ pPc' = "ended"
  /\ UNCHANGED <<pAttempt, pSticker, pSubmit, pInputs, pNodeIds, pFiles, pEvents, pIssue,
                 pCoverReady, pTopReady, pUploadOk, pState, pCopies, pConfirm, pResult,
                 pError, pBrowser>>
  /\ UNCHANGED postOthers

InitPost ==
  /\ InitCdpVars /\ IdleRun /\ IdleVerifier /\ IdleArticle /\ IdleAttach
  /\ IdleEditor /\ IdleUpload /\ InitPostVars /\ IdleLogin /\ IdleVisible /\ IdleMore
NextPost ==
  \/ PostOpen \/ PostFind \/ PostSetFiles \/ PostDispatch \/ PostWait
  \/ PostDetect \/ PostFallback \/ PostGate \/ PostTitle \/ PostInsert
  \/ PostCheck \/ PostRecover \/ PostVerifyContent \/ PostSubmit
  \/ PostReject \/ PostFinally
SpecPost == InitPost /\ [][NextPost]_vars

(***************************************************************************)
(* SpecLogin: postToWeChat from the first login check to the click on the  *)
(* creation menu.  Time is in milliseconds; lNow is Date.now().            *)
(***************************************************************************)
DefaultLoginTimeoutMs == 120000
LoginSleepMs == 2000
LoginTimeouts == {0, 3 * LoginSleepMs, DefaultLoginTimeoutMs}
\* How long one checkLoginStatus round trip takes.
CheckLatencies == {0, 500}

InitLoginVars ==
  /\ lPc = "first" /\ lNow = 0 /\ lStart = 0
  /\ lTimeout \in LoginTimeouts
  /\ lLogged \in BOOLEAN /\ lEver = lLogged
  /\ lObserved = FALSE /\ lMenu = FALSE /\ lError = "none"

loginOthers == <<cdpVars, runVars, verVars, artVars, attVars, edVars, upVars,
                 postVars, visVars, moreVars>>

\* The user completes the login in the browser window.
LoginUser ==
  /\ lPc \in {"first", "check", "sleep"} /\ ~lLogged
  /\ lLogged' = TRUE /\ lEver' = TRUE
  /\ UNCHANGED <<lPc, lNow, lStart, lTimeout, lObserved, lMenu, lError>>
  /\ UNCHANGED loginOthers

\* let isLoggedIn = await checkLoginStatus(); if (!isLoggedIn) { waitForLogin }
LoginFirst ==
  /\ lPc = "first"
  /\ \E lat \in CheckLatencies :
       /\ lNow' = lNow + lat
       /\ lStart' = lNow + lat
  /\ lObserved' = lLogged
  /\ lPc' = IF lLogged THEN "loggedIn" ELSE "check"
  /\ UNCHANGED <<lTimeout, lLogged, lEver, lMenu, lError>>
  /\ UNCHANGED loginOthers

\* isLoggedIn = await waitForLogin(); if (!isLoggedIn) throw ...
LoginGateOpen(isLoggedIn) == "loggedIn"
LoginGate(isLoggedIn) == IF isLoggedIn THEN "loggedIn" ELSE "failed"

\* while (Date.now() - start < timeoutMs) { if (await checkLoginStatus())
\* return true; ... } return false;
LoginCheck ==
  /\ lPc = "check"
  /\ IF lNow - lStart < lTimeout
     THEN \E lat \in CheckLatencies :
            /\ lNow' = lNow + lat
            /\ lObserved' = lLogged
            /\ lPc' = IF lLogged THEN LoginGate(TRUE) ELSE "sleep"
            /\ lError' = lError
     ELSE /\ lPc' = LoginGate(FALSE)
          /\ lError' = IF LoginGate(FALSE) = "failed" THEN "login timeout" ELSE lError
          /\ UNCHANGED <<lNow, lObserved>>
  /\ UNCHANGED <<lStart, lTimeout, lLogged, lEver, lMenu>>
  /\ UNCHANGED loginOthers

\* await sleep(2000) of the loop
LoginSleep ==
  /\ lPc = "sleep"
  /\ lNow' = lNow + LoginSleepMs
  /\ lPc' = "check"
  /\ UNCHANGED <<lStart, lTimeout, lLogged, lEver, lObserved, lMenu, lError>>
  /\ UNCHANGED loginOthers

\* The creation menu is looked up and clicked: the composer opens.
LoginMenuClick ==
  /\ lPc = "loggedIn"
  /\ lMenu' = TRUE /\ lPc' = "composer"
  /\ UNCHANGED <<lNow, lStart, lTimeout, lLogged, lEver, lObserved, lError>>
  /\ UNCHANGED loginOthers

\* A command of the section is rejected: its error leaves the try block.
LoginReject ==
  /\ lPc \in {"first", "check", "loggedIn"}
  /\ lPc' = "failed" /\ lError' = "step failed"
  /\ UNCHANGED <<lNow, lStart, lTimeout, lLogged, lEver, lObserved, lMenu>>
  /\ UNCHANGED loginOthers

InitLogin ==
  /\ InitCdpVars /\ IdleRun /\ IdleVerifier /\ IdleArticle /\ IdleAttach
  /\ IdleEditor /\ IdleUpload /\ IdlePost /\ InitLoginVars /\ IdleVisible /\ IdleMore
NextLogin ==
  \/ LoginUser \/ LoginFirst \/ LoginCheck \/ LoginSleep \/ LoginMenuClick
  \/ LoginReject
SpecLogin == InitLogin /\ [][NextLogin]_vars

(***************************************************************************)
(* SpecVisible: the decision each page helper takes about one element.     *)
(* Box sizes are in half pixels.                                           *)
(***************************************************************************)
OnePx == 2
TwoPx == 4
BoxSizes == {0, 3, 4, 5}
Elements ==
  [display : {"block", "none"}, visibility : {"visible", "hidden"},
   opacity : {"1", "0"}, w : BoxSizes, h : BoxSizes]
Rows == {e \in Elements : e.opacity = "1" /\ e.w = TwoPx /\ e.h = TwoPx}
NoElement == <<>>

\* isVisible of clickBySelectors, clickVisibleByText, the dialog resolver
\* and the verifiers
IsVisible(el) ==
  /\ ~(el.w < TwoPx \/ el.h < TwoPx)
  /\ el.display # "none" /\ el.visibility # "hidden" /\ el.opacity # "0"
\* isVisible of findBestFileInputNodeIds
IsVisibleFileInput(el) ==
  /\ ~(el.display = "none" \/ el.visibility = "hidden" \/ el.opacity = "0")
  /\ el.w > OnePx /\ el.h > OnePx
\* visible of dumpComposeDiagnostics
IsVisibleDiagnostics(el) ==
  /\ el.display # "none" /\ el.visibility # "hidden" /\ el.opacity # "0"
  /\ el.w > TwoPx /\ el.h > TwoPx
\* the row test of openRowById and setCheckboxInRow
RowHidden(row) == row.display = "none" \/ row.visibility = "hidden"

visOthers == <<cdpVars, runVars, verVars, artVars, attVars, edVars, upVars,
               postVars, loginVars, moreVars>>
Decide(helper, el, row, acted) ==
  /\ visHelper' = helper /\ visEl' = el /\ visRow' = row /\ visActed' = acted
  /\ UNCHANGED visOthers

\* for (const el of nodes) { if (!isVisible(el)) continue; el.click(); ... }
VisClickBySelectors ==
  /\ visHelper = "none"
  /\ \E el \in Elements : Decide("clickBySelectors", el, NoElement, IsVisible(el))
VisClickVisibleByText ==
  /\ visHelper = "none"
  /\ \E el \in Elements : Decide("clickVisibleByText", el, NoElement, IsVisible(el))
\* handleOriginalDialogIfPresent: the dialog is handled when isVisible(dialog)
VisDialogResolver ==
  /\ visHelper = "none"
  /\ \E el \in Elements :
    Decide("handleOriginalDialogIfPresent", el, NoElement, IsVisible(el))
\* The only file input of the document: visibility adds to its score, and
\* the node whose score is above the starting bestScore of -1 is marked and
\* returned.
VisFindBestFileInput ==
  /\ visHelper = "none"
  /\ \E el \in Elements :
    Decide("findBestFileInputNodeIds", el, NoElement,
           ScoreEnabled + (IF IsVisibleFileInput(el) THEN ScoreVisible ELSE 0) > -1)
\* The first candidate found inside the row is clicked when the row is not
\* hidden.
VisOpenRowById ==
  /\ visHelper = "none"
  /\ \E row \in Rows, el \in Elements :
    Decide("openRowById", el, row, ~RowHidden(row))
VisDumpDiagnostics ==
  /\ visHelper = "none"
  /\ \E el \in Elements :
    Decide("dumpComposeDiagnostics", el, NoElement, IsVisibleDiagnostics(el))

InitVisible ==
  /\ InitCdpVars /\ IdleRun /\ IdleVerifier /\ IdleArticle /\ IdleAttach
  /\ IdleEditor /\ IdleUpload /\ IdlePost /\ IdleLogin /\ IdleVisible /\ IdleMore
NextVisible ==
  \/ VisClickBySelectors \/ VisClickVisibleByText \/ VisDialogResolver
  \/ VisFindBestFileInput \/ VisOpenRowById \/ VisDumpDiagnostics
SpecVisible == InitVisible /\ [][NextVisible]_vars

(***************************************************************************)
(* SpecContent: postArticle from the copy of the content to the click on   *)
(* the save button.  The image loop and the originality dialog are in      *)
(* SpecArticle; here they are single steps.                                *)
(***************************************************************************)
\* contentLength < 10, retryLength < 10, ensureLength < 10
MinEditorLen == 10
EditorLens == {0, MinEditorLen - 1, MinEditorLen}
ArticleOptions == [submit : BOOLEAN, manualPaste : BOOLEAN,
                   kind : {"html", "content"}]

InitContentVars ==
  /\ cOpts \in ArticleOptions
  /\ cPc = IF cOpts.kind = "html" THEN "copy" ELSE "type"
  /\ cLens = <<>> /\ cLog = <<>> /\ cError = "none"

cntOthers == <<oldVars, selVars, zipVars, dlgVars>>
CntDid(steps) == cLog' = cLog \o steps

\* copyHtmlToClipboard, and copyHtmlFromBrowser when it throws; the editor
\* is focused again.
CntCopy ==
  /\ cPc = "copy"
  /\ \E copied \in BOOLEAN, fromBrowser \in BOOLEAN :
       IF copied
       THEN CntDid(<<"copyHtml">>) /\ cPc' = "paste" /\ cError' = cError
       ELSE IF fromBrowser
            THEN /\ CntDid(<<"copyHtml", "copyFromBrowser">>)
                 /\ cPc' = "paste" /\ cError' = cError
            ELSE /\ CntDid(<<"copyHtml", "copyFromBrowser">>)
                 /\ cPc' = "failed" /\ cError' = "copy failed"
  /\ UNCHANGED <<cOpts, cLens>>
  /\ UNCHANGED cntOthers

\* if (manualPaste) waitForEnter else pasteFromClipboardInEditor
CntPaste ==
  /\ cPc = "paste"
  /\ IF cOpts.manualPaste
     THEN CntDid(<<"waitForEnter">>) /\ cPc' = "ensure"
     ELSE CntDid(<<"pasteSystem">>) /\ cPc' = "read"
  /\ UNCHANGED <<cOpts, cLens, cError>>
  /\ UNCHANGED cntOthers

TooShort(n) == n < MinEditorLen

\* contentLength is read; if (contentLength < 10) the retry follows
CntRead ==
  /\ cPc = "read"
  /\ \E n \in EditorLens :
       /\ cLens' = Append(cLens, n)
       /\ cPc' = IF TooShort(n) THEN "retry" ELSE "ensure"
  /\ UNCHANGED <<cOpts, cLog, cError>>
  /\ UNCHANGED cntOthers

\* if (retryLength < 10) throw new Error('Paste failed: ...')
RetryThrowsNever(n) == FALSE
RetryThrows(n) == TooShort(n)

\* focusEditor, pasteInEditor (the CDP key events), retryLength is read
CntRetry ==
  /\ cPc = "retry"
  /\ CntDid(<<"pasteCdp">>)
  /\ \E n \in EditorLens :
       /\ cLens' = Append(cLens, n)
       /\ IF RetryThrows(n)
          THEN cPc' = "failed" /\ cError' = "Paste failed"
          ELSE cPc' = "ensure" /\ cError' = cError
  /\ UNCHANGED cOpts
  /\ UNCHANGED cntOthers

\* ensureLength is read; if (ensureLength < 10) throw 'Editor is empty...'
CntEnsure ==
  /\ cPc = "ensure"
  /\ \E n \in EditorLens :
       /\ cLens' = Append(cLens, n)
       /\ IF TooShort(n)
          THEN cPc' = "failed" /\ cError' = "Editor is empty"
          ELSE cPc' = "images" /\ cError' = cError
  /\ UNCHANGED <<cOpts, cLog>>
  /\ UNCHANGED cntOthers

\* The image loop over contentImages.
CntImages ==
  /\ cPc = "images"
  /\ CntDid(<<"images">>) /\ cPc' = "summary"
  /\ UNCHANGED <<cOpts, cLens, cError>>
  /\ UNCHANGED cntOthers

\* else if (content): the images are pasted, then typeText(session, content)
CntType ==
  /\ cPc = "type"
  /\ CntDid(<<"typeText">>) /\ cPc' = "summary"
  /\ UNCHANGED <<cOpts, cLens, cError>>
  /\ UNCHANGED cntOthers

\* The summary is filled in and handleOriginalDialogIfPresent runs.
CntSummary ==
  /\ cPc = "summary"
  /\ CntDid(<<"summary", "resolve">>) /\ cPc' = "save"
  /\ UNCHANGED <<cOpts, cLens, cError>>
  /\ UNCHANGED cntOthers

\* document.querySelector('#js_submit button').click(): the statement is
\* under no condition.
SaveClickedOnSubmit(submit) == submit
SaveClicked(submit) == TRUE

CntSave ==
  /\ cPc = "save"
  /\ IF SaveClicked(cOpts.submit)
     THEN CntDid(<<"submitClick">>)
     ELSE UNCHANGED cLog
  /\ cPc' = "finally"
  /\ UNCHANGED <<cOpts, cLens, cError>>
  /\ UNCHANGED cntOthers

\* A command of the current step is rejected, or a helper throws.
CntReject ==
  /\ cPc \in {"copy", "paste", "read", "retry", "ensure", "images", "type",
              "summary", "save"}
  /\ cPc' = "failed" /\ cError' = "step failed"
  /\ UNCHANGED <<cOpts, cLens, cLog>>
  /\ UNCHANGED cntOthers

\* finally { cdp.close(); }
CntFinally ==
  /\ cPc \in {"finally", "failed"}
  /\ CntDid(<<"close">>) /\ cPc' = "ended"
  /\ UNCHANGED <<cOpts, cLens, cError>>
  /\ UNCHANGED cntOthers

InitContent ==
  /\ InitCdpVars /\ IdleRun /\ IdleVerifier /\ IdleArticle /\ IdleAttach
  /\ IdleEditor /\ IdleUpload /\ IdlePost /\ IdleLogin /\ IdleVisible
  /\ InitContentVars /\ IdleSelect /\ IdleCompress /\ IdleDialog
NextContent ==
  \/ CntCopy \/ CntPaste \/ CntRead \/ CntRetry \/ CntEnsure \/ CntImages
  \/ CntType \/ CntSummary \/ CntSave \/ CntReject \/ CntFinally
SpecContent == InitContent /\ [][NextContent]_vars

(***************************************************************************)
(* SpecSelect: one pass of postArticle's image loop in an article whose    *)
(* images include numbers of one and of two digits.  The passes for the    *)
(* lower numbers are over: their placeholders are gone, replaced by the    *)
(* image where the pass found them.                                        *)
(***************************************************************************)
ImageNumbers == {1, 2, 10}

\* The nodes image n contributes at the start of the pass for target.
NodesAtPass(form, n, target) ==
  IF n >= target THEN FormNodes(form, n)
  ELSE IF form = "missing" THEN <<>> ELSE <<ImgNode(n)>>
RECURSIVE DocAtPass(_, _, _)
DocAtPass(forms, nums, target) ==
  IF nums = {} THEN <<TextNode(<<"H", "i">>)>>
  ELSE LET n == CHOOSE m \in nums : \A k \in nums : k <= m
       IN  DocAtPass(forms, nums \ {n}, target)
           \o NodesAtPass(forms[n], n, target)
RECURSIVE OwnersAtPass(_, _, _)
OwnersAtPass(forms, nums, target) ==
  IF nums = {} THEN <<0>>
  ELSE LET n == CHOOSE m \in nums : \A k \in nums : k <= m
       IN  OwnersAtPass(forms, nums \ {n}, target)
           \o [k \in 1..Len(NodesAtPass(forms[n], n, target)) |-> n]

InitSelectVars ==
  \E target \in ImageNumbers, forms \in [ImageNumbers -> Forms] :
    /\ sTarget = target
    /\ sDoc = DocAtPass(forms, ImageNumbers, target)
    /\ sOwner = OwnersAtPass(forms, ImageNumbers, target)
    /\ sPc = "select" /\ sSel = <<>> /\ sFound = FALSE

selOthers == <<oldVars, cntVars, zipVars, dlgVars>>

\* const found = await selectAndReplacePlaceholder(session, img.placeholder);
\* if (!found) continue;
SelSelect ==
  /\ sPc = "select"
  /\ LET r == SelectAndReplacePlaceholder(sDoc, Placeholder(sTarget))
     IN  /\ sSel' = IF r.hit
                    THEN <<[node |-> r.node, from |-> r.from, to |-> r.to]>>
                    ELSE <<>>
         /\ sFound' = r.ok
         /\ sPc' = IF FoundGate(r.ok) THEN "copy" ELSE "skipped"
  /\ UNCHANGED <<sTarget, sDoc, sOwner>>
  /\ UNCHANGED selOthers

\* copyImageToClipboard: throws when the copy fails.
SelCopy ==
  /\ sPc = "copy"
  /\ \E copied \in BOOLEAN : sPc' = IF copied THEN "delete" ELSE "aborted"
  /\ UNCHANGED <<sTarget, sDoc, sOwner, sSel, sFound>>
  /\ UNCHANGED selOthers

\* deleteSelectedText
SelDelete ==
  /\ sPc = "delete"
  /\ sDoc' = DeleteSelected(sDoc, sSel)
  /\ sSel' = CaretAfterDelete(sSel)
  /\ sPc' = "paste"
  /\ UNCHANGED <<sTarget, sOwner, sFound>>
  /\ UNCHANGED selOthers

\* The owners of the nodes PasteImage leaves.
OwnersAfterPaste(doc, owner, sel, n) ==
  LET k == sel[1].node
      t == doc[k].s
      before == SubSeq(t, 1, sel[1].from)
      after == SubSeq(t, sel[1].to + 1, Len(t))
  IN  SubSeq(owner, 1, k - 1)
      \o (IF before = <<>> THEN <<>> ELSE <<owner[k]>>)
      \o <<n>>
      \o (IF after = <<>> THEN <<>> ELSE <<owner[k]>>)
      \o SubSeq(owner, k + 1, Len(owner))

\* pasteFromClipboardInEditor: the image replaces the caret.
SelPaste ==
  /\ sPc = "paste"
  /\ sDoc' = PasteImage(sDoc, sSel, sTarget)
  /\ sOwner' = OwnersAfterPaste(sDoc, sOwner, sSel, sTarget)
  /\ sSel' = <<>>
  /\ sPc' = "pasted"
  /\ UNCHANGED <<sTarget, sFound>>
  /\ UNCHANGED selOthers

InitSelect ==
  /\ InitCdpVars /\ IdleRun /\ IdleVerifier /\ IdleArticle /\ IdleAttach
  /\ IdleEditor /\ IdleUpload /\ IdlePost /\ IdleLogin /\ IdleVisible
  /\ IdleContent /\ InitSelectVars /\ IdleCompress /\ IdleDialog
NextSelect == SelSelect \/ SelCopy \/ SelDelete \/ SelPaste
SpecSelect == InitSelect /\ [][NextSelect]_vars

(***************************************************************************)
(* SpecCompress: the pre-processing of title and content at the start of   *)
(* postToWeChat.  A title is the sequence of its characters, each written  *)
(* in pinyin ("de" is U+7684, "he" U+548C, "he2" U+4F55, "yu" U+4E0E,      *)
(* "yu2" U+4E8E, "guo" U+679C, "guo4" U+8FC7, "dash" U+2014, "dots"        *)
(* U+2026); the content is the sequence of its lines, each with its        *)
(* length and whether it was cut.                                          *)
(***************************************************************************)
TitleMaxLen == 20
ContentMaxLen == 1000
\* if (remaining > 20)
MinRemaining == 20
\* line.slice(0, remaining - 3) + '...'
EllipsisLen == 3
MaxLines == 2

\* const prefixes = [...]
Prefixes == << <<"ru", "he2">>, <<"wei", "shen", "me">>, <<"shen", "me", "shi">>,
               <<"zen", "yang">>, <<"zen", "me">>, <<"guan", "yu2">> >>
\* const fillers = [...]
Fillers == << <<"de">>, <<"le">>, <<"zai">>, <<"shi">>, <<"he">>, <<"yu">>,
              <<"yi", "ji">>, <<"huo", "zhe">>, <<"huo">>, <<"hai", "shi">>,
              <<"er", "qie">>, <<"bing", "qie">>, <<"dan", "shi">>, <<"dan">>,
              <<"yin", "wei">>, <<"suo", "yi">>, <<"ru", "guo">>, <<"na", "me">>,
              <<"sui", "ran">>, <<"bu", "guo4">>, <<"ran", "er">>,
              <<"dash", "dash">>, <<"dots">> >>

Min(a, b) == IF a <= b THEN a ELSE b
\* String.prototype.startsWith
StartsWith(t, p) == Len(t) >= Len(p) /\ SubSeq(t, 1, Len(p)) = p
\* t.replace(new RegExp(f, 'g'), ''): every match, from the left, is removed
RECURSIVE RemoveAll(_, _)
RemoveAll(t, pat) ==
  IF Len(t) < Len(pat) THEN t
  ELSE IF SubSeq(t, 1, Len(pat)) = pat
       THEN RemoveAll(SubSeq(t, Len(pat) + 1, Len(t)), pat)
       ELSE <<t[1]>> \o RemoveAll(Tail(t), pat)

\* The loop over the prefixes; done: the function returned inside the loop.
RECURSIVE StripPrefixes(_, _, _)
StripPrefixes(t, maxLen, i) ==
  IF i > Len(Prefixes) THEN [t |-> t, done |-> FALSE]
  ELSE IF StartsWith(t, Prefixes[i]) /\ Len(t) > maxLen
       THEN LET u == SubSeq(t, Len(Prefixes[i]) + 1, Len(t))
            IN  IF Len(u) <= maxLen THEN [t |-> u, done |-> TRUE]
                ELSE StripPrefixes(u, maxLen, i + 1)
       ELSE StripPrefixes(t, maxLen, i + 1)

\* The loop over the fillers: if (t.length <= maxLen) break;
RECURSIVE RemoveFillers(_, _, _)
RemoveFillers(t, maxLen, i) ==
  IF i > Len(Fillers) \/ Len(t) <= maxLen THEN t
  ELSE RemoveFillers(RemoveAll(t, Fillers[i]), maxLen, i + 1)

\* if (t.length > maxLen) t = t.slice(0, maxLen)
SliceToMaxKept(t, maxLen) == t
SliceToMax(t, maxLen) == IF Len(t) > maxLen THEN SubSeq(t, 1, maxLen) ELSE t

compressTitle(title, maxLen) ==
  IF Len(title) <= maxLen THEN title
  ELSE LET p == StripPrefixes(title, maxLen, 1)
       IN  IF p.done THEN p.t
           ELSE SliceToMax(RemoveFillers(p.t, maxLen, 1), maxLen)

\* content.length of lines joined with '\n'
RECURSIVE SumLen(_)
SumLen(lines) == IF lines = <<>> THEN 0 ELSE Head(lines).len + SumLen(Tail(lines))
JoinedLen(lines) == IF lines = <<>> THEN 0 ELSE SumLen(lines) + Len(lines) - 1

\* const remaining = maxLen - len - 1
RemainingNoSeparator(maxLen, len) == maxLen - len + 1
Remaining(maxLen, len) == maxLen - len - 1

\* The loop of compressContent over the lines, from line i on.
RECURSIVE ContentLoop(_, _, _, _, _)
ContentLoop(lines, i, result, len, maxLen) ==
  IF i > Len(lines) THEN result
  ELSE IF len + lines[i].len + 1 > maxLen
       THEN LET remaining == Remaining(maxLen, len)
                kept == Min(lines[i].len, remaining - EllipsisLen)
            IN  IF remaining > MinRemaining
                THEN Append(result, [len |-> kept + EllipsisLen, cut |-> TRUE])
                ELSE result
       ELSE ContentLoop(lines, i + 1, Append(result, lines[i]),
                        len + lines[i].len + 1, maxLen)

compressContent(content, maxLen) ==
  IF JoinedLen(content) <= maxLen THEN content
  ELSE ContentLoop(content, 1, <<>>, 0, maxLen)

\* Titles: an optional prefix, plain characters, a filler group, plain
\* characters.
Rep(c, n) == [k \in 1..n |-> c]
Titles ==
  {p \o Rep("x", a) \o f \o Rep("y", b) :
     p \in {<<>>, <<"ru", "he2">>, <<"guan", "yu2">>},
     a \in {0, 8, 10},
     f \in {<<>>, <<"de">>, <<"dan", "shi">>, <<"yi", "ji", "de">>},
     b \in {0, 9, 10, 12}}
LineLens == {0, 10, 480, 500, 970, 985, 1001}
Lines == [len : LineLens, cut : {FALSE}]
Contents == UNION {[1..n -> Lines] : n \in 1..MaxLines}

InitCompressVars ==
  /\ zOptions \in [title : Titles, content : Contents]
  /\ zTitle = zOptions.title /\ zContent = zOptions.content
  /\ zPc = "title" /\ zError = "none"

zipOthers == <<oldVars, cntVars, selVars, dlgVars>>

\* if (title.length > 20) title = compressTitle(title, 20)
ZipTitle ==
  /\ zPc = "title"
  /\ zTitle' = IF Len(zTitle) > TitleMaxLen
               THEN compressTitle(zTitle, TitleMaxLen) ELSE zTitle
  /\ zPc' = "content"
  /\ UNCHANGED <<zOptions, zContent, zError>>
  /\ UNCHANGED zipOthers

\* if (content.length > 1000) content = compressContent(content, 1000)
ZipContent ==
  /\ zPc = "content"
  /\ zContent' = IF JoinedLen(zContent) > ContentMaxLen
                 THEN compressContent(zContent, ContentMaxLen) ELSE zContent
  /\ zPc' = "validate"
  /\ UNCHANGED <<zOptions, zTitle, zError>>
  /\ UNCHANGED zipOthers

\* if (!title) throw ...; if (!content) throw ...
ZipValidate ==
  /\ zPc = "validate"
  /\ IF zTitle = <<>>
     THEN zPc' = "failed" /\ zError' = "Title is required"
     ELSE IF JoinedLen(zContent) = 0
          THEN zPc' = "failed" /\ zError' = "Content is required"
          ELSE zPc' = "used" /\ zError' = zError
  /\ UNCHANGED <<zOptions, zTitle, zContent>>
  /\ UNCHANGED zipOthers

InitCompress ==
  /\ InitCdpVars /\ IdleRun /\ IdleVerifier /\ IdleArticle /\ IdleAttach
  /\ IdleEditor /\ IdleUpload /\ IdlePost /\ IdleLogin /\ IdleVisible
  /\ IdleContent /\ IdleSelect /\ InitCompressVars /\ IdleDialog
NextCompress == ZipTitle \/ ZipContent \/ ZipValidate
SpecCompress == InitCompress /\ [][NextCompress]_vars

(***************************************************************************)
(* SpecDialog: handleOriginalDialogIfPresent of wechat-browser.ts with     *)
(* clickPrimaryButtonInVisibleDialog.  Labels: "ok" is a label of the      *)
(* allow-list passed by the resolver, "cancel" a label that contains the   *)
(* cancel word, "other" any other text.  Time is in milliseconds.          *)
(***************************************************************************)
MaxButtons == 2
\* while (Date.now() - start < 6000)
DialogPollMs == 6000
\* await sleep(250)
DialogSleepMs == 250
\* How long one Runtime.evaluate of the poll takes.
PollLatencies == {0, DialogSleepMs}

OkButton == [visible |-> TRUE, label |-> "ok", primary |-> FALSE]
HiddenOkButton == [visible |-> FALSE, label |-> "ok", primary |-> TRUE]
CancelPrimaryButton == [visible |-> TRUE, label |-> "cancel", primary |-> TRUE]
OtherPrimaryButton == [visible |-> TRUE, label |-> "other", primary |-> TRUE]
Buttons == {OkButton, HiddenOkButton, CancelPrimaryButton, OtherPrimaryButton}
\* A visible dialog: its buttons in document order.
Dialogs == UNION {[1..n -> Buttons] : n \in 0..MaxButtons}
\* The visible dialogs of the page in document order; the second one, when
\* there is one, has one button.  original: which of them has the
\* originality title (0: none).
DialogPages ==
  {[dialogs |-> <<d>>, original |-> o] : d \in Dialogs, o \in {0, 1}}
  \cup {[dialogs |-> <<d, <<b>>>>, original |-> o] :
          d \in Dialogs, b \in Buttons, o \in {0, 1, 2}}
ExpectedFields == {"radio", "author", "agreement"}

\* if (!t || t.includes(cancel)) continue
HasCancel(label) == label = "cancel"
\* labels.some((l) => t === norm(l))
InAllowList(label) == label = "ok"
\* The buttons of one dialog the label loop would click, in order.
LabelMatches(dialog) ==
  SelectSeq([i \in 1..Len(dialog) |-> i],
            LAMBDA i : /\ dialog[i].visible /\ ~HasCancel(dialog[i].label)
                       /\ InAllowList(dialog[i].label))
\* dialog.querySelector('.weui-desktop-btn_primary'): the first button with
\* the marker, or 0.
FirstPrimary(dialog) ==
  LET at == {i \in 1..Len(dialog) : dialog[i].primary}
  IN  IF at = {} THEN 0 ELSE CHOOSE i \in at : \A j \in at : i <= j
NoClick == [ok |-> FALSE, dialog |-> 0, button |-> 0, via |-> "none"]
\* What the loop body does for dialog k: a click, or nothing.
ClickInDialog(dialogs, k) ==
  LET d == dialogs[k]
      p == FirstPrimary(d)
  IN  IF LabelMatches(d) # <<>>
      THEN [ok |-> TRUE, dialog |-> k, button |-> LabelMatches(d)[1],
            via |-> "label"]
      ELSE IF p # 0 /\ d[p].visible
           THEN [ok |-> TRUE, dialog |-> k, button |-> p, via |-> "primary-class"]
           ELSE NoClick
\* for (const dialog of dialogs) { ... }: the first dialog with a click.
RECURSIVE clickPrimaryButtonInVisibleDialog(_, _)
clickPrimaryButtonInVisibleDialog(dialogs, k) ==
  IF k > Len(dialogs) THEN NoClick
  ELSE IF ClickInDialog(dialogs, k).ok THEN ClickInDialog(dialogs, k)
       ELSE clickPrimaryButtonInVisibleDialog(dialogs, k + 1)

InitDialogVars ==
  /\ dPage \in DialogPages /\ dFields \in SUBSET ExpectedFields
  /\ dPc = "prepare" /\ dFilled = {} /\ dClick = <<>> /\ dNow = 0
  /\ dResult = "none" /\ dError = "none"

dlgOthers == <<oldVars, cntVars, selVars, zipVars>>

\* The first evaluation: if (!dialog) return { ok: false }; each field that
\* is found is filled in; return { ok: true }.
PreparedOkNeedsFields(fields) == fields # {}
PreparedOk(fields) == TRUE

DlgPrepare ==
  /\ dPc = "prepare"
  /\ IF dPage.original = 0
     THEN dPc' = "returned" /\ dResult' = "false" /\ dFilled' = dFilled
     ELSE /\ dFilled' = dFields
          /\ IF PreparedOk(dFields)
             THEN dPc' = "click" /\ dResult' = dResult
             ELSE dPc' = "returned" /\ dResult' = "false"
  /\ UNCHANGED <<dPage, dFields, dClick, dNow, dError>>
  /\ UNCHANGED dlgOthers

\* const confirmed = await clickPrimaryButtonInVisibleDialog(...);
\* if (!confirmed) return true; const start = Date.now();
DlgClick ==
  /\ dPc = "click"
  /\ LET c == clickPrimaryButtonInVisibleDialog(dPage.dialogs, 1)
     IN  /\ dClick' = <<c>>
         /\ IF c.ok THEN dPc' = "poll" /\ dResult' = dResult
            ELSE dPc' = "returned" /\ dResult' = "true"
  /\ dNow' = 0
  /\ UNCHANGED <<dPage, dFields, dFilled, dError>>
  /\ UNCHANGED dlgOthers

\* while (Date.now() - start < 6000)
PollGoesOn(elapsed) == elapsed < DialogPollMs

\* One turn of the close poll: the dialog is looked for; if it is gone the
\* loop ends, otherwise sleep(250).  After the loop: return true.
DlgPoll ==
  /\ dPc = "poll"
  /\ IF PollGoesOn(dNow)
     THEN \E latency \in PollLatencies, closed \in BOOLEAN :
            IF closed
            THEN dNow' = dNow + latency /\ dPc' = "returned" /\ dResult' = "true"
            ELSE /\ dNow' = dNow + latency + DialogSleepMs
                 /\ dPc' = "poll" /\ dResult' = dResult
     ELSE dNow' = dNow /\ dPc' = "returned" /\ dResult' = "true"
  /\ UNCHANGED <<dPage, dFields, dFilled, dClick, dError>>
  /\ UNCHANGED dlgOthers

\* A Runtime.evaluate of the resolver is rejected.
DlgReject ==
  /\ dPc \in {"prepare", "click", "poll"}
  /\ dPc' = "failed" /\ dError' = "command rejected"
  /\ UNCHANGED <<dPage, dFields, dFilled, dClick, dNow, dResult>>
  /\ UNCHANGED dlgOthers

InitDialog ==
  /\ InitCdpVars /\ IdleRun /\ IdleVerifier /\ IdleArticle /\ IdleAttach
  /\ IdleEditor /\ IdleUpload /\ IdlePost /\ IdleLogin /\ IdleVisible
  /\ IdleContent /\ IdleSelect /\ IdleCompress /\ InitDialogVars
NextDialog == DlgPrepare \/ DlgClick \/ DlgPoll \/ DlgReject
SpecDialog == InitDialog /\ [][NextDialog]_vars

(***************************************************************************)
(* Properties of CdpConnection (SpecCdp)                                   *)
(***************************************************************************)
IsTimeout(o) == o.how = "reject" /\ o.why = "CDP timeout"
IsResponse(f) == ~f.malformed /\ f.id # 0
IsEvent(f) == ~f.malformed /\ f.method # NoMethod

\* C1: when the timer of a pending command fires, that command alone is
\* rejected (with its timeout error) and removed; every other entry, timer and
\* settlement is left as it was, and a response for a command that is still
\* pending resolves it whatever timers fired before.
TimeoutIsolation ==
  [][ /\ lastOp'.op = "timer" =>
          LET id == lastOp'.id IN
            /\ id \in DOMAIN pending
            /\ DOMAIN pending' = DOMAIN pending \ {id}
            /\ \A j \in DOMAIN pending' : pending'[j] = pending[j]
            /\ timers' = timers \ {id}
            /\ settled'[id] = Append(settled[id], RejectedTimeout(pending[id].method))
            /\ \A j \in DOMAIN settled \ {id} : settled'[j] = settled[j]
      /\ (lastOp'.op = "message" /\ IsResponse(lastOp'.frame)
            /\ lastOp'.frame.err = "none" /\ lastOp'.id \in DOMAIN pending) =>
          /\ settled'[lastOp'.id] = <<Resolved>>
          /\ lastOp'.id \notin DOMAIN pending'
    ]_vars
\* A timer fires for command 1 while command 2 is in flight.
TimeoutIsolationWitness ==
  /\ lastOp.op = "timer" /\ lastOp.id = 1
  /\ 2 \in DOMAIN pending /\ settled[2] = <<>>
  /\ Len(settled[1]) = 1 /\ IsTimeout(settled[1][1])

\* C2: the close listener rejects every command pending at that moment with
\* the connection-closed error, clears its timer, and leaves the table empty.
CloseRejectsAll ==
  [][ lastOp'.op = "close" =>
        /\ DOMAIN pending' = {}
        /\ \A i \in DOMAIN pending :
             /\ settled'[i] = Append(settled[i], RejectedClosed)
             /\ i \notin timers'
        /\ \A i \in DOMAIN settled \ DOMAIN pending : settled'[i] = settled[i]
    ]_vars
\* The transport closes with every issued command still pending.
CloseRejectsAllWitness ==
  /\ lastOp.op = "close"
  /\ DOMAIN settled = Ids
  /\ \A i \in Ids : settled[i] = <<RejectedClosed>>
  /\ timers = {} /\ DOMAIN pending = {}

\* C8: a response whose id is pending settles that command once, removes its
\* entry and clears its timer, touching no other command; and no command's
\* resolve / reject is ever called a second time.
ResponseSettlesOnce ==
  /\ [](\A i \in DOMAIN settled : Len(settled[i]) <= 1)
  /\ [][ (lastOp'.op = "message" /\ IsResponse(lastOp'.frame)
            /\ lastOp'.id \in DOMAIN pending) =>
          LET id == lastOp'.id IN
            /\ Len(settled'[id]) = 1 /\ settled[id] = <<>>
            /\ DOMAIN pending' = DOMAIN pending \ {id}
            /\ id \notin timers'
            /\ \A j \in DOMAIN settled \ {id} :
                 settled'[j] = settled[j] /\ (j \in timers' <=> j \in timers)
      ]_vars
\* A response arrives for a pending command whose timer is armed.
ResponseSettlesOnceWitness ==
  /\ lastOp.op = "message" /\ IsResponse(lastOp.frame)
  /\ Len(settled[lastOp.id]) = 1 /\ settled[lastOp.id][1].why \in {"result", "error"}
  /\ lastOp.id \notin timers
  /\ \E j \in DOMAIN settled \ {lastOp.id} :
       \/ j \in timers
       \/ settled[j] # <<>> /\ IsTimeout(settled[j][1])

\* C9: a response carrying an error payload rejects the pending command it
\* matches, whatever the payload holds.
ErrorPayloadRejects ==
  [][ (lastOp'.op = "message" /\ IsResponse(lastOp'.frame)
        /\ lastOp'.frame.err # "none" /\ lastOp'.id \in DOMAIN pending) =>
      settled'[lastOp'.id] = <<RejectedError>>
    ]_vars

\* C10: an event frame invokes every handler registered for its method, in
\* registration order, each with the frame's params.
AllHandlersInvoked ==
  [][ (lastOp'.op = "message" /\ IsEvent(lastOp'.frame)) =>
      LET hs == eventHandlers[lastOp'.frame.method] IN
        invoked' = [i \in 1..Len(hs) |-> <<hs[i], lastOp'.frame.params>>]
    ]_vars

\* C37: the pending table holds exactly the ids of the commands that were
\* issued and are not settled; a new entry carries an id greater than every
\* id issued before, and an entry leaves the table in the very step that
\* settles its command and in no other step, also for a command written to
\* a transport that no longer carries it.
PendingIsIssuedUnsettled ==
  /\ [](/\ DOMAIN settled = 1..nextId
        /\ DOMAIN pending = {id \in 1..nextId : settled[id] = <<>>})
  /\ [][/\ nextId' \in {nextId, nextId + 1}
        /\ DOMAIN pending' \ DOMAIN pending = (1..nextId') \ (1..nextId)
        /\ \A id \in DOMAIN pending :
             id \notin DOMAIN pending' <=> settled'[id] # settled[id]]_vars
PendingIsIssuedUnsettledWitness ==
  /\ ~wsOpen
  /\ \E i \in DOMAIN pending, j \in 1..nextId :
       i \notin wire /\ j < i /\ settled[j] = <<RejectedClosed>>

(***************************************************************************)
(* Properties of the publish run (SpecRun)                                 *)
(***************************************************************************)
\* C3: a run under which the transport closed (with a command pending or
\* while the run slept between two commands) fails with the
\* connection-closed error.
ClosedRunReportsClosed ==
  (runPc \in {"failed", "ended"} /\ runClosed # "no")
    => runError = "CDP connection closed."

\* C11: a command timeout rejects the command with a timeout error naming its
\* method and removes its entry, and leaves the connection as it was, so that
\* later commands are still answered; a command sent with timeoutMs 0 gets no
\* timer, and only a command holding a timer is ever rejected by a timeout.
TimeoutLeavesConnectionOpen ==
  /\ [](timers \subseteq {i \in DOMAIN pending : pending[i].hasTimer})
  /\ [][/\ \A i \in DOMAIN pending \cap DOMAIN pending' : pending'[i] = pending[i]
        /\ (lastOp'.op = "send" /\ lastOp'.opt.given /\ lastOp'.opt.ms = 0) =>
             /\ lastOp'.id \notin timers'
             /\ ~pending'[lastOp'.id].hasTimer
        /\ lastOp'.op = "timer" =>
             LET id == lastOp'.id IN
               /\ id \in DOMAIN pending /\ pending[id].hasTimer
               /\ id \notin DOMAIN pending'
               /\ settled'[id] =
                    Append(settled[id], RejectedTimeout(pending[id].method))
               /\ wsOpen' = wsOpen /\ wire' = wire
               /\ nextId' = nextId /\ eventHandlers' = eventHandlers]_vars
\* The first command timed out, the connection is open, and the second
\* command, sent without a timer, has just been resolved by its response.
TimeoutLeavesConnectionOpenWitness ==
  /\ wsOpen /\ nextId = 2
  /\ settled[1] = <<RejectedTimeout("Runtime.evaluate")>>
  /\ lastOp.op = "message" /\ lastOp.id = 2
  /\ settled[2] = <<Resolved>> /\ 2 \notin timers

\* C12: a malformed incoming frame is dropped: the pending table, the timers
\* and the handler table stay as they were, no command is settled and no
\* handler is called, the connection stays open, and a response arriving
\* right after it still settles its pending command.
MalformedFrameDropped ==
  [][/\ (lastOp'.op = "message" /\ lastOp'.frame.malformed) =>
          /\ pending' = pending /\ timers' = timers
          /\ eventHandlers' = eventHandlers /\ settled' = settled
          /\ invoked' = <<>> /\ wsOpen' = wsOpen /\ nextId' = nextId
     /\ ( /\ lastOp.op = "message" /\ lastOp.frame.malformed
          /\ lastOp'.op = "message" /\ IsResponse(lastOp'.frame)
          /\ lastOp'.id \in DOMAIN pending ) =>
          /\ lastOp'.id \notin DOMAIN pending'
          /\ settled'[lastOp'.id] =
               Append(settled[lastOp'.id], SettleOutcome(lastOp'.frame))]_vars
\* A malformed frame has just been dropped while a command is pending with
\* its timer armed and a handler is registered.
MalformedFrameDroppedWitness ==
  /\ lastOp.op = "message" /\ lastOp.frame.malformed
  /\ wsOpen /\ 1 \in DOMAIN pending /\ 1 \in timers
  /\ \E m \in EventMethods : eventHandlers[m] # <<>>

(***************************************************************************)
(* Properties of waitForImagesUploaded (SpecVerifier)                      *)
(***************************************************************************)
\* C4: completion is never reported before the 8 s floor has elapsed since the
\* verifier started.
MinWaitFloorHonored ==
  vOutcome = "complete" => vNow - vStart >= MinWaitMs
\* Completion reported although the very first sample already showed the
\* expected count with no uploading indicator, right at the floor.
MinWaitFloorWitness ==
  /\ vOutcome = "complete" /\ vFirstOk
  /\ vNow - vStart = MinWaitMs

\* C18: completion is reported only on a sample whose uploading count is 0
\* and whose count reaches the expected count or whose cover flag is set;
\* the best count of earlier samples does not stand in for it.
CompletionOnCurrentSample ==
  vOutcome = "complete" =>
    /\ vSample # <<>> /\ vSample[1].uploading = 0
    /\ vSample[1].count >= vExpected \/ vSample[1].hasCoverStyle
\* Completion reported on a sample that reaches the expected count after an
\* earlier sample had shown a higher count.
CompletionOnCurrentSampleWitness ==
  /\ vOutcome = "complete" /\ vSample[1].count >= vExpected
  /\ ~vSample[1].hasCoverStyle /\ vBest > vSample[1].count

\* C19 (as amended): the verifier always terminates, in one of three ways:
\* it reports completion on a sample taken in a pass that started within
\* the timeout; or, the timeout having passed, it waits the grace period
\* and returns normally; or a sampling command is rejected and it throws.
VerifierTerminates ==
  /\ <>(vPc = "done")
  /\ [](vPc = "done" => vOutcome \in {"complete", "grace", "threw"})
  /\ [](vOutcome = "grace" => vNow - vStart >= vTimeout + GraceMs)
  /\ [][vOutcome' = "complete" => vNow - vStart < vTimeout]_vars
  /\ [][vPc = "done" => UNCHANGED verVars]_vars
\* The timeout passed with samples that never qualified, and the verifier
\* returned after the grace period.
VerifierTerminatesWitness ==
  /\ vPc = "done" /\ vOutcome = "grace" /\ vSample # <<>>
  /\ vNow - vStart >= DefaultUploadTimeoutMs + GraceMs
\* C19 as stated: the verifier ends by reporting completion or by returning
\* after the grace period, never by raising an error.
VerifierNeverRaises ==
  vPc = "done" => vOutcome \in {"complete", "grace"}

\* C20: a failure phrase visible in the page is fatal for the upload wait at
\* once: with the phrase there from the start, the first wait is over
\* before its minimum-wait floor.
ErrorSignalCutsWait ==
  (uPhase = "first" /\ uIssue = "fromStart") => vNow - vStart < MinWaitMs

(***************************************************************************)
(* Properties of postArticle (SpecArticle)                                 *)
(***************************************************************************)
Mutations(i) == aOps[i].copy + aOps[i].del + aOps[i].paste

\* C5: in the image loop no clipboard copy, deletion or paste is performed
\* for an image unless the placeholder selection for that image has just
\* returned true, the selection reading back as the placeholder (exactly, or
\* after normalisation).
MutationOnlyAfterSelection ==
  /\ \A i \in DOMAIN aOps :
       Mutations(i) > 0 =>
         /\ aOps[i].sel = "true"
         /\ aOps[i].text \in {"exact", "normalized"}
  /\ aPc \in {"copy", "delete", "paste", "count"} =>
       aFound /\ aOps[aImg].sel = "true"
\* One image's placeholder was not found and nothing was done for it, while
\* another image was selected through the normalised fallback and pasted.
MutationOnlyAfterSelectionWitness ==
  \E i, j \in DOMAIN aOps :
    /\ aOps[i].sel = "false" /\ Mutations(i) = 0
    /\ aOps[j].sel = "true" /\ aOps[j].paste = 1
    /\ aOps[j].text = "normalized"

\* C6: no submit click is issued while the originality dialog is visible.
NoSubmitWhileDialogVisible == aSubmitDlg = FALSE

Rank(st) ==
  CASE st = "pending" -> 0 [] st = "selected" -> 1 [] st = "copied" -> 2
    [] st = "deleted" -> 3 [] st = "pasted" -> 4 [] st = "checked" -> 5

\* C7: each image task only moves forward along pending, selected, copied,
\* deleted, pasted, checked; once pasted nothing more is selected, deleted or
\* pasted for it, and at most one paste is performed per placeholder.
ImageTaskMonotone ==
  /\ [](\A i \in DOMAIN aOps : aOps[i].paste <= 1)
  /\ [][\A i \in DOMAIN aTask :
          /\ Rank(aTask'[i]) \in {Rank(aTask[i]), Rank(aTask[i]) + 1}
          /\ Rank(aTask[i]) >= Rank("pasted") => aOps'[i] = aOps[i]]_vars
\* The first image is checked and the loop is working on the second one.
ImageTaskMonotoneWitness ==
  /\ Len(aTask) = 2 /\ aTask[1] = "checked" /\ aOps[1].paste = 1
  /\ aImg = 2 /\ aTask[2] = "deleted"

DeleteOnlyAfterCopy ==
  /\ [](aPc = "aborted" =>
          /\ aOps[aImg].copy = 1 /\ aOps[aImg].del = 0 /\ aOps[aImg].paste = 0
          /\ aTask[aImg] = "selected" /\ aClip # aImg
          /\ Normalize(SelectedText(aDoc, aSel)) = Normalize(Placeholder(aImg))
          /\ \A k \in 1..Len(aDoc) : aDoc[k] # ImgNode(aImg))
  /\ [][\A i \in DOMAIN aOps :
          aOps'[i].del > aOps[i].del =>
            aClip = i /\ aTask[i] = "copied" /\ aOps[i].copy = 1]_vars
DeleteOnlyAfterCopyWitness ==
  /\ aPc = "aborted" /\ aImg = 2 /\ aOps[1].paste = 1 /\ aOps[2].copy = 1
  /\ aClip = 1

(***************************************************************************)
(* Properties of the attach sites (SpecAttach)                             *)
(***************************************************************************)
\* C13: on every session obtained by Target.attachToTarget, the Page,
\* Runtime and DOM domains have all been enabled before the first command
\* that is not an enablement is sent on it.
DomainsEnabledBeforeUse ==
  \A site \in DOMAIN sess : sess[site].used => sess[site].usedWith = Domains

(***************************************************************************)
(* Properties of the editor detection (SpecEditor)                         *)
(***************************************************************************)
\* C14: waitForEditor reports a target as a new tab only if its id is absent
\* from the snapshot taken before the menu click; a target whose id is in
\* the snapshot is never reported as new.
NewTabOnlyOutsideSnapshot ==
  eInfo # <<>> =>
    /\ eInfo[1].isNewTab => eInfo[1].targetId \notin eInitialIds
    /\ eInfo[1].targetId \in eInitialIds => ~eInfo[1].isNewTab
\* A tab that opened after the click is reported as new while the snapshot
\* holds the attached page and another tab that was already open.
NewTabOnlyOutsideSnapshotWitness ==
  /\ eInfo # <<>> /\ eInfo[1].isNewTab /\ eInfo[1].targetId = "t3"
  /\ eInitialIds = {"t1", "t2"} /\ InWeixin(eTargets["t2"])

\* C15: every command sent after the detection goes to a session attached
\* to the target waitForEditor returned.
CommandsGoToReturnedTarget ==
  \A c \in eSent : eInfo # <<>> /\ c.target = eInfo[1].targetId

\* C16: a detection pass never modifies the snapshot, and a pass over a
\* target list unchanged since a pass that found no new target finds none.
DetectionIdempotent ==
  /\ [][ePasses' # ePasses =>
          /\ eInitialIds' = eInitialIds
          /\ eDiff' = NewTabCandidates(eTargets, eInitialIds)
          /\ (ePasses > 0 /\ ~eChanged /\ eDiff = {}) => eDiff' = {}]_vars
  /\ [][ePc \notin {"idle", "snapshot"} => eInitialIds' = eInitialIds]_vars
\* Two passes in a row saw the same target list, which holds a tab that is
\* in the snapshot, and both found no new target.
DetectionIdempotentWitness ==
  /\ ePasses >= 2 /\ eStable /\ eDiff = {} /\ ePc = "poll"
  /\ "t2" \in eInitialIds /\ eTargets["t3"] # "absent"

Performed(step) == \E k \in 1..Len(pLog) : pLog[k] = step
TimesPerformed(steps) == Cardinality({k \in 1..Len(pLog) : pLog[k] \in steps})

\* C21: after an upload error signal the upload is tried exactly once more,
\* and when that is not accepted either the run gives up: a run makes at most
\* two upload attempts, whatever the way the files are handed to the page.
NoUploadAfterTheRetry == TimesPerformed({"setFiles", "pasteImage"}) <= 2

\* C22: in the image-text flow, first attempt and retry alike, only the
\* input with the highest score holds files.
OnlyBestInputReceivesFiles == ~pSticker => pFiles \subseteq {Best(pInputs)}

\* C23: every assignment of files is followed by the dispatch, the verifier
\* starts only right after a dispatch that followed an assignment, and the
\* dispatch sent 'input' and then 'change' to each input that holds files.
InputThenChange(i) ==
  \E a \in 1..Len(pEvents), b \in 1..Len(pEvents) :
    /\ a < b
    /\ pEvents[a] = [node |-> i, type |-> "input"]
    /\ pEvents[b] = [node |-> i, type |-> "change"]
EventsDispatchedBeforeVerifier ==
  /\ \A k \in 1..Len(pLog) :
       /\ pLog[k] = "verifier" =>
            k > 2 /\ pLog[k - 1] = "dispatch" /\ pLog[k - 2] = "setFiles"
       /\ (pLog[k] = "setFiles" /\ k < Len(pLog)) =>
            pLog[k + 1] \in {"dispatch", "close"}
  /\ pPc \in {"wait", "detect"} => \A i \in pFiles : InputThenChange(i)
EventsDispatchedBeforeVerifierWitness ==
  /\ pPc = "detect" /\ ~pSticker /\ pAttempt = 2
  /\ Cardinality(pFiles) = 2 /\ pLog[Len(pLog)] = "verifier"

\* C25: the title, the content, the settings and the submit click come only
\* after the upload check found the upload ready for the flow with no
\* upload issue; otherwise the run throws 'Image upload failed' and does
\* none of them.
ComposeSteps == {"title", "insertLines", "insertHtml", "pasteHtml", "settings",
                 "submitClick"}
ComposeOnlyAfterUploadOk ==
  /\ TimesPerformed(ComposeSteps) > 0 =>
       Performed("verify") /\ pUploadOk /\ ~pIssue
  /\ (Performed("verify") /\ (pIssue \/ ~pUploadOk)) =>
       pError = "Image upload failed" /\ TimesPerformed(ComposeSteps) = 0
ComposeOnlyAfterUploadOkWitness ==
  pPc = "ended" /\ Performed("title") /\ Performed("submitClick")

\* C26: the run reports the draft saved only when the page has confirmed
\* the save after the submit click.
SavedOnlyAfterConfirmation == pResult = "saved" => pConfirm

\* C27: once a step has failed, the only thing the run still does is close
\* the connection; it ends with the connection closed and the browser
\* running.
FatalErrorEndsRun ==
  /\ [](pPc = "ended" => ~pConn /\ pBrowser = "running")
  /\ [][pError # "none" =>
          /\ pPc' = "ended" /\ pLog' = Append(pLog, "close")
          /\ ~pConn' /\ pBrowser' = "running"]_vars
FatalErrorEndsRunWitness ==
  /\ pPc = "ended" /\ pError = "step failed" /\ ~pConn
  /\ Performed("title") /\ ~Performed("submitClick")

\* C30: the HTML is pasted through the clipboard only after the line-by-line
\* insertion was done and the editor state read after it failed the check
\* (text not written, or multi-line content shown without a line break).
PasteOnlyAfterFailedCheck ==
  \A k \in 1..Len(pLog) :
    pLog[k] = "pasteHtml" =>
      /\ \E i \in 1..(k - 1), j \in 1..(k - 1) :
           i < j /\ pLog[i] = "insertLines" /\ pLog[j] = "readState"
      /\ LET st == pState[1]
         IN  ~st.first.written \/ (st.multi /\ st.first.flat)
PasteOnlyAfterFailedCheckWitness ==
  pPc = "ended" /\ Performed("pasteHtml") /\ pResult = "saved"

\* C31: the content insertion is retried at most once through the alternate
\* path, and a run whose editor check fails after that retry throws
\* 'Content insert failed' and does not reach the submit step.
InsertRetriedOnceThenFatal ==
  /\ TimesPerformed({"clear"}) <= 2 /\ TimesPerformed({"insertLines"}) <= 1
  /\ TimesPerformed({"pasteHtml"}) <= 1 /\ TimesPerformed({"insertHtml"}) <= 1
  /\ (TimesPerformed({"clear"}) = 2 /\ CheckFailed(pState[1])) =>
       /\ pPc \in {"verifyContent", "failed", "ended"}
       /\ pResult = "none" /\ TimesPerformed({"settings", "submitClick"}) = 0
       /\ pPc = "ended" => pError \in {"Content insert failed", "step failed"}
InsertRetriedOnceThenFatalWitness ==
  /\ pPc = "ended" /\ pError = "Content insert failed" /\ Performed("insertHtml")
  /\ pState[1].written /\ pState[1].multi /\ pState[1].flat

\* C34: postToWeChat issues the click on the save control exactly in the
\* runs with the option submit that reach the submit step; in a preview run
\* neither the click nor the pre-submit settings are ever issued.
SubmitSteps == {"settings", "submitClick", "clickNoControl"}
ClickIffSubmitOption ==
  /\ ~pSubmit => TimesPerformed(SubmitSteps) = 0 /\ pResult # "saved"
  /\ (pSubmit /\ pPc \in {"finally", "ended"} /\ pError = "none") =>
       /\ TimesPerformed({"submitClick", "clickNoControl"}) = 1
       /\ pResult = "saved"
ClickIffSubmitOptionWitness ==
  /\ pPc = "ended" /\ ~pSubmit /\ pResult = "composed" /\ pError = "none"
  /\ Performed("insertLines") /\ TimesPerformed(SubmitSteps) = 0

MenuOnlyAfterLogin ==
  /\ lMenu => lObserved
  /\ lPc \in {"loggedIn", "composer"} => lObserved
  /\ lError = "login timeout" =>
       /\ lPc = "failed" /\ ~lObserved /\ ~lMenu
       /\ lNow - lStart >= lTimeout
  /\ ~lEver => lPc \notin {"loggedIn", "composer"} /\ ~lMenu
MenuOnlyAfterLoginWitness ==
  /\ lPc = "failed" /\ lError = "login timeout" /\ ~lEver
  /\ lTimeout = DefaultLoginTimeoutMs /\ lNow - lStart >= DefaultLoginTimeoutMs

(***************************************************************************)
(* Properties of the visibility decisions (SpecVisible)                    *)
(***************************************************************************)
\* C28: no helper clicks, selects or reports visible an element whose
\* display is none, and every helper decides by the one rule: box at least
\* 2px by 2px, display not none, visibility not hidden, opacity not 0.
OneVisibilityRule ==
  visHelper # "none" =>
    /\ visActed => visEl.display # "none"
    /\ visActed <=> IsVisible(visEl)

(***************************************************************************)
(* Properties of postArticle's content insertion (SpecContent)             *)
(***************************************************************************)
CntPerformed(step) == \E k \in 1..Len(cLog) : cLog[k] = step
CntTimes(step) == Cardinality({k \in 1..Len(cLog) : cLog[k] = step})

\* The paste of postArticle is retried at most once, through the CDP key
\* events, and a run whose editor is still short after the retry throws and
\* does not click the save button (the postArticle half of C31).
PasteRetriedOnceThenFatal ==
  /\ CntTimes("pasteCdp") <= 1 /\ CntTimes("pasteSystem") <= 1
  /\ (CntPerformed("pasteCdp") /\ Len(cLens) >= 2 /\ TooShort(cLens[2])) =>
       /\ cPc \in {"failed", "ended"} /\ cError = "Paste failed"
       /\ ~CntPerformed("submitClick")
PasteRetriedOnceThenFatalWitness ==
  cPc = "ended" /\ cError = "Paste failed" /\ CntPerformed("pasteCdp")

\* C35: a run of postArticle that got past the content insertion and threw
\* nothing has clicked the save button once the save statement is behind
\* it, with the submit option given or not; the click comes after the
\* insertion.
SaveClickIgnoresSubmit ==
  /\ (cPc \in {"finally", "ended"} /\ cError = "none") =>
       CntTimes("submitClick") = 1
  /\ CntPerformed("submitClick") =>
       CntPerformed("images") \/ CntPerformed("typeText")
SaveClickIgnoresSubmitWitness ==
  /\ cPc = "ended" /\ cError = "none" /\ ~cOpts.submit
  /\ CntPerformed("images") /\ CntPerformed("submitClick")

(***************************************************************************)
(* Properties of the placeholder selection (SpecSelect)                    *)
(***************************************************************************)
\* C38: the text selected for an image lies in the node of that image's own
\* placeholder, and the image is pasted only there: no node that stands for
\* another image loses text to the pass or has the image put into it.
SelectsOwnPlaceholderOnly ==
  /\ sSel # <<>> => sOwner[sSel[1].node] = sTarget
  /\ sPc = "pasted" =>
       \A k \in 1..Len(sDoc) :
         (sDoc[k].kind = "text" /\ sOwner[k] \notin {0, sTarget}) =>
           \E f \in Forms \ {"missing"} : <<sDoc[k]>> = FormNodes(f, sOwner[k])

(***************************************************************************)
(* Properties of the pre-processing (SpecCompress)                         *)
(***************************************************************************)
\* C36: after the pre-processing the title has at most 20 characters and
\* the content at most 1000, and a title or content that was within its
\* limit is the one passed in.
CompressedWithinLimits ==
  /\ zPc \in {"content", "validate", "used", "failed"} =>
       /\ Len(zTitle) <= TitleMaxLen
       /\ Len(zOptions.title) <= TitleMaxLen => zTitle = zOptions.title
  /\ zPc \in {"validate", "used", "failed"} =>
       /\ JoinedLen(zContent) <= ContentMaxLen
       /\ JoinedLen(zOptions.content) <= ContentMaxLen =>
            zContent = zOptions.content
CompressedWithinLimitsWitness ==
  /\ zPc = "used" /\ Len(zOptions.title) > TitleMaxLen
  /\ JoinedLen(zOptions.content) > ContentMaxLen
  /\ Len(zTitle) = TitleMaxLen /\ zContent[Len(zContent)].cut
  /\ JoinedLen(zContent) = ContentMaxLen - 1

(***************************************************************************)
(* Properties of the originality dialog resolver (SpecDialog)              *)
(***************************************************************************)
Clicked == dClick[1]
ClickedButton == dPage.dialogs[Clicked.dialog][Clicked.button]

\* C32: with the originality dialog detected and none of its fields found,
\* the resolver fills nothing, throws nothing of its own, goes on to the
\* click on a primary button, and returns true no later than one poll turn
\* after the 6 s of its close poll.
ResolverBestEffort ==
  /\ dError \in {"none", "command rejected"}
  /\ dPc = "poll" => dNow < DialogPollMs + 2 * DialogSleepMs
  /\ (dPage.original # 0 /\ dFields = {}) =>
       /\ dFilled = {}
       /\ dPc \in {"prepare", "click", "poll", "returned", "failed"}
       /\ dPc \in {"poll", "returned"} => dClick # <<>>
       /\ dPc = "returned" =>
            /\ dResult = "true"
            /\ dNow < DialogPollMs + 2 * DialogSleepMs
ResolverBestEffortWitness ==
  /\ dPc = "returned" /\ dPage.original = 1 /\ dFields = {}
  /\ Clicked.ok /\ Clicked.via = "primary-class" /\ dNow >= DialogPollMs

\* C33: the button clicked is visible and its label does not contain the
\* cancel word.
PrimaryClickNeverCancel ==
  (dClick # <<>> /\ Clicked.ok) =>
    ClickedButton.visible /\ ~HasCancel(ClickedButton.label)
====
